---- MODULE Spec2Model ----
(***************************************************************************)
(* Model of the nydus-cli commit pipeline (pkg/workflow/workflow.go):     *)
(* Workflow.Commit with its two errgroup waves, the withRetry wrapper,    *)
(* the pause/unpause bracket, the maximum-times gate, the bootstrap merge *)
(* and the publication of config, bootstrap layer and manifest.           *)
(*                                                                         *)
(* A string is modelled as a sequence of tokens; a digest is one token    *)
(* and "," is a token of its own, so strings.Join and strings.Split are   *)
(* computed as the code computes them.                                     *)
(***************************************************************************)
EXTENDS Integers, Sequences, FiniteSets, TLC

\* ---------------------------------------------------------------- bounds
MaxWithPaths == 1      \* include-mount paths given with --with-path
MaxNested    == 1      \* nested bind mounts present under the upper dir
MaxMountList == 2      \* cap on the length of MountList.paths
MaxBaseCount == 2      \* entries of the first base image's annotation
MaxTimes     == 2      \* largest --maximum-times tried
MaxChain     == 3      \* successful commits in one chain
MaxTagBody   == 2      \* characters of a short tag before its ending
TagSlack     == 10     \* long tags start this far below the longest tag
MaxContainerMounts == 2  \* mounts of the container handed to prepareMounts
MaxTargetPaths     == 2  \* include paths handed to prepareMounts
MaxPushes          == 2  \* calls of Registry.Push on the one client
MaxBlobSize        == 3  \* bytes of a small blob
MaxChunkSize       == 2  \* bytes of a chunk of the multipart split
SplitSlack         == 3  \* blob sizes this far around the largest accepted one
MaxCallers         == 3  \* concurrent pushBlob calls

\* ------------------------------------------------------ program constants
RetryTotal == 3        \* withRetry(..., 3)
defaultRetryAttempts == 3
PartLimit == 10000     \* chunkN >= 10000 of splitFileByPartSize

VARIABLES
  opt,            \* CommitOption: [pause, nWith, maxTimes, TargetRef]
  nested,         \* number of nested bind mounts the diff extractor meets
  baseAnno,       \* nydus-commit-blobs annotation of the base bootstrap layer
  external,       \* wf.cfg.OSS.Endpoint # "": the backend is the object store
  baseLayers,     \* nydusImage.Manifest.Layers of the base image
  pc,             \* position of the Commit goroutine
  result,         \* error returned by Commit (NoErr on success)
  err,            \* the variable err of Commit, captured by every wave closure
  committedLayers,\* value returned by pullBootstrap
  pullCalls,      \* calls of pullBootstrap
  pauseCalls,     \* pause requests sent to the engine
  unpauseCalls,   \* unpause requests sent to the engine
  paused,         \* the container is paused
  pauseOK,        \* history: the pause request of this commit succeeded
  wave,           \* 0 before the waves, 1 or 2 while one runs
  task,           \* per wave task: [pc, total, digest, ret]
  egErr,          \* errgroup.Group.err of the running wave
  firstFail,      \* history: the first task whose goroutine returned an error (-1: none)
  doneAfterFail,  \* history: a task finished its push after a sibling had failed
  paths,          \* MountList.paths
  upperBlob,      \* *Blob set by the upper task (NoBlob while nil)
  mountBlobs,     \* []Blob
  commitErr,      \* value returned by the closure commit
  mergeLayers,    \* layers handed to converter.Merge
  mergeCalls,     \* calls of mergeBootstrap
  pubLog,         \* the remoter.Push calls of pushManifest, in order
  pushedAnno,     \* nydus-commit-blobs annotation of the pushed bootstrap layer
  pushedDiffIDs,  \* RootFS.DiffIDs of the pushed image config (<< >>: none pushed)
  registry,       \* annotation of the image the target tag points to
  registryLayers, \* Manifest.Layers of the image the target tag points to
  succCommits,    \* successful commits of the chain so far
  targetRef,      \* targetRef of Commit: AppendNydusSuffix(opt.TargetRef)
  again,          \* AppendNydusSuffix applied to targetRef
  hasSuffix,      \* HasNydusSuffix applied to targetRef
  containerMounts,\* prepareMounts: the mounts of the container
  targetPaths,    \* prepareMounts: the include paths
  prep,           \* prepareMounts: [pc, i, targetMounts, mounts, err]
  withRetry,      \* remote.WithRetry: [pc, attempts, err, outs, ret, n]
  regRemote,      \* Registry.remote: [withHTTP, log]
  cfgPush,        \* the config push of pushManifest: [pc, remote, ret]
  split,          \* splitFileByPartSize: [blobSize, chunkSize, done, chunks, err]
  ossPush,        \* OSSBackend.push: its position, its locals and the upload
  wfBe,           \* wf.be and wf.beMutex, and the client of the registry backend
  caller,         \* the concurrent pushBlob calls: [pc, be, err]
  workDir,        \* wf.workDir of this invocation: "created" or "removed"
  blobFile,       \* one blob of the work directory, packed with retries and described
  mgr,            \* one call of the container manager: [addr, op, pc, contacted, ret]
  insp            \* one Inspect of a container: what the engine reports, and the result

vars == << opt, nested, baseAnno, external, baseLayers, pc, result, err, committedLayers, pullCalls,
           pauseCalls, unpauseCalls, paused, pauseOK, wave, task, egErr, firstFail, doneAfterFail,
           paths, upperBlob, mountBlobs, commitErr, mergeLayers, mergeCalls,
           pubLog, pushedAnno, pushedDiffIDs, registry, registryLayers, succCommits,
           targetRef, again, hasSuffix, containerMounts, targetPaths, prep,
           withRetry, regRemote, cfgPush, split, ossPush,
           wfBe, caller, workDir, blobFile, mgr, insp >>

\* ----------------------------------------------------------------- errors
\* an error value: its root message, the wave task whose call produced it
\* (-1 outside the waves) and the messages errors.Wrap has put around it
NoErr == [kind |-> "nil", origin |-> -1, wrap |-> << >>]
E(kind) == [kind |-> kind, origin |-> -1, wrap |-> << >>]
PackErr(t) == [kind |-> "pack", origin |-> t, wrap |-> << >>]
PushErr(t) == [kind |-> "push", origin |-> t, wrap |-> << >>]

\* errors.Wrap(e, msg); errors.Wrap(nil, msg) is nil
Wrap(e, msg) == IF e = NoErr THEN NoErr ELSE [e EXCEPT !.wrap = << msg >> \o @]
\* errors.Cause(e)
Cause(e) == [e EXCEPT !.wrap = << >>]

\* ---------------------------------------------------------------- strings
Comma == ","

\* strings.Join(elems, ",") for elems a sequence of strings
RECURSIVE Join(_)
Join(elems) ==
  IF elems = << >> THEN << >>
  ELSE IF Len(elems) = 1 THEN elems[1]
  ELSE elems[1] \o << Comma >> \o Join(Tail(elems))

\* index of the first "," of s, 0 if there is none
RECURSIVE IndexComma(_, _)
IndexComma(s, i) ==
  IF i > Len(s) THEN 0
  ELSE IF s[i] = Comma THEN i
  ELSE IndexComma(s, i + 1)

\* strings.Split(s, ","): "" yields one empty element
RECURSIVE Split(_)
Split(s) ==
  LET i == IndexComma(s, 1)
  IN IF i = 0 THEN << s >>
     ELSE << SubSeq(s, 1, i - 1) >> \o Split(SubSeq(s, i + 1, Len(s)))

\* ------------------------------------------------------- image references
\* An image reference is a string of tokens: a repository name (one token),
\* then ":" and the characters of a tag, then "@" and a digest (one token).
NydusRefSuffix == << "_", "n", "y", "d", "u", "s", "_", "v", "2" >>

\* strings.HasSuffix(str, suffix)
HasSuffix(str, suffix) ==
  /\ Len(str) >= Len(suffix)
  /\ SubSeq(str, Len(str) - Len(suffix) + 1, Len(str)) = suffix

\* the grammar of docker.ParseDockerRef: the longest tag it accepts
TagMaxLen == 128

\* repository names, as written and as ParseDockerRef normalizes them
RepoNames == { "nginx", "docker.io/library/nginx", "localhost:5000/nginx" }
NormalizedName(n) == IF n = "nginx" THEN "docker.io/library/nginx" ELSE n
WordChars == { "v", "l", "a", "t", "e", "s", "_", "n", "y", "d", "u", "2" }
RefDigests == { "sha256:0123" }
DefaultTag == << "l", "a", "t", "e", "s", "t" >>

\* index of the first token c of s at or after i, 0 if there is none
IndexOf(s, c, i) ==
  LET hits == { j \in i .. Len(s) : s[j] = c }
  IN IF hits = { } THEN 0 ELSE CHOOSE j \in hits : \A k \in hits : j <= k

\* docker.ParseDockerRef(ref): the named reference, or an error; a reference
\* with a tag and a digest keeps the digest only
ParseDockerRef(ref) ==
  LET at == IndexOf(ref, "@", 2)
      tagPart == IF at = 0 THEN SubSeq(ref, 2, Len(ref)) ELSE SubSeq(ref, 2, at - 1)
      digPart == IF at = 0 THEN << >> ELSE SubSeq(ref, at + 1, Len(ref))
      tagOK == \/ tagPart = << >>
               \/ /\ tagPart[1] = ":"
                  /\ Len(tagPart) - 1 \in 1 .. TagMaxLen
                  /\ \A i \in 2 .. Len(tagPart) : tagPart[i] \in WordChars
      digOK == at = 0 \/ (Len(digPart) = 1 /\ digPart[1] \in RefDigests)
  IN IF ref = << >> \/ ref[1] \notin RepoNames \/ ~tagOK \/ ~digOK
     THEN [err |-> E("invalid reference"), name |-> "", tag |-> << >>, digest |-> ""]
     ELSE [err |-> NoErr,
           name |-> NormalizedName(ref[1]),
           tag |-> IF at # 0 \/ tagPart = << >> THEN << >> ELSE Tail(tagPart),
           digest |-> IF at = 0 THEN "" ELSE digPart[1]]

\* named.(docker.Digested)
Digested(named) == named.digest # ""

\* docker.TagNameOnly(named): a name without tag and digest gets the tag latest
TagNameOnly(named) ==
  IF named.tag = << >> /\ named.digest = "" THEN [named EXCEPT !.tag = DefaultTag]
  ELSE named

\* named.String()
RefString(named) ==
  << named.name >>
  \o (IF named.tag = << >> THEN << >> ELSE << ":" >> \o named.tag)
  \o (IF named.digest = "" THEN << >> ELSE << "@", named.digest >>)

\* an AppendNydusSuffix that appends the suffix whatever the tag ends with
AppendNydusSuffix_AlwaysAppends(ref) ==
  LET named == ParseDockerRef(ref)
  IN IF named.err # NoErr
     THEN [ref |-> << >>, err |-> Wrap(named.err, "invalid image reference")]
     ELSE IF Digested(named)
     THEN [ref |-> << >>, err |-> E("unsupported digested image reference")]
     ELSE [ref |-> RefString(TagNameOnly(named)) \o NydusRefSuffix, err |-> NoErr]

\* distribution.AppendNydusSuffix(ref): (target, err)
AppendNydusSuffix(ref) ==
  LET named == ParseDockerRef(ref)
  IN IF named.err # NoErr
     THEN [ref |-> << >>, err |-> Wrap(named.err, "invalid image reference")]
     ELSE IF Digested(named)
     THEN [ref |-> << >>, err |-> E("unsupported digested image reference")]
     ELSE IF HasSuffix(RefString(TagNameOnly(named)), NydusRefSuffix)
     THEN [ref |-> ref, err |-> NoErr]
     ELSE [ref |-> RefString(TagNameOnly(named)) \o NydusRefSuffix, err |-> NoErr]

\* distribution.HasNydusSuffix(ref): (bool, err)
HasNydusSuffix(ref) ==
  LET named == ParseDockerRef(ref)
  IN IF named.err # NoErr
     THEN [has |-> FALSE, err |-> Wrap(named.err, "invalid image reference")]
     ELSE IF Digested(named)
     THEN [has |-> FALSE, err |-> E("unsupported digested image reference")]
     ELSE [has |-> HasSuffix(RefString(TagNameOnly(named)), NydusRefSuffix), err |-> NoErr]

\* ------------------------------------------------------------------ paths
\* A path is a string of characters; "/" and "." are characters of their own.
\* strings.HasPrefix(s, prefix)
HasPrefix(s, prefix) ==
  /\ Len(s) >= Len(prefix)
  /\ SubSeq(s, 1, Len(prefix)) = prefix

\* filepath.IsAbs(path)
IsAbs(path) == Len(path) > 0 /\ path[1] = "/"

\* strings.TrimLeft(s, "/")
TrimLeft(s) ==
  LET keep == { i \in 1 .. Len(s) : s[i] # "/" }
  IN IF keep = { } THEN << >>
     ELSE SubSeq(s, CHOOSE i \in keep : \A j \in keep : i <= j, Len(s))

\* strings.Split(path, "/")
RECURSIVE SplitPath(_)
SplitPath(path) ==
  LET i == IndexOf(path, "/", 1)
  IN IF i = 0 THEN << path >>
     ELSE << SubSeq(path, 1, i - 1) >> \o SplitPath(SubSeq(path, i + 1, Len(path)))

\* strings.Join(elems, "/")
RECURSIVE JoinPath(_)
JoinPath(elems) ==
  IF elems = << >> THEN << >>
  ELSE IF Len(elems) = 1 THEN elems[1]
  ELSE elems[1] \o << "/" >> \o JoinPath(Tail(elems))

DotDot == << ".", "." >>

\* the elements of a path that filepath.Clean keeps: no empty one, no ".",
\* and ".." taken together with the element before it
RECURSIVE Resolve(_, _, _)
Resolve(elems, out, rooted) ==
  IF elems = << >> THEN out
  ELSE LET c == Head(elems)
       IN IF c = << >> \/ c = << "." >> THEN Resolve(Tail(elems), out, rooted)
          ELSE IF c # DotDot THEN Resolve(Tail(elems), Append(out, c), rooted)
          ELSE IF out # << >> /\ out[Len(out)] # DotDot
          THEN Resolve(Tail(elems), SubSeq(out, 1, Len(out) - 1), rooted)
          ELSE IF rooted THEN Resolve(Tail(elems), out, rooted)
          ELSE Resolve(Tail(elems), Append(out, c), rooted)

Elements(path) == Resolve(SplitPath(path), << >>, IsAbs(path))

\* filepath.Clean(path)
Clean(path) ==
  LET body == JoinPath(Elements(path))
  IN IF IsAbs(path) THEN << "/" >> \o body
     ELSE IF body = << >> THEN << "." >>
     ELSE body

\* filepath.Rel(basepath, targpath): (path, err)
Rel(basepath, targpath) ==
  LET base == Elements(basepath)
      targ == Elements(targpath)
      same == { k \in 0 .. Len(base) :
                  k <= Len(targ) /\ \A i \in 1 .. k : base[i] = targ[i] }
      k == CHOOSE n \in same : \A m \in same : m <= n
      up == [i \in 1 .. (Len(base) - k) |-> DotDot]
  IN IF IsAbs(basepath) # IsAbs(targpath)
        \/ \E i \in (k + 1) .. Len(base) : base[i] = DotDot
     THEN [path |-> << >>, err |-> E("Rel: can't make relative")]
     ELSE IF Clean(basepath) = Clean(targpath)
     THEN [path |-> << "." >>, err |-> NoErr]
     ELSE [path |-> JoinPath(up \o SubSeq(targ, k + 1, Len(targ))), err |-> NoErr]

\* filepath.Join(a, b): empty elements are ignored, the result is cleaned
Join2(a, b) ==
  LET elems == SelectSeq(<< a, b >>, LAMBDA e : e # << >>)
  IN IF elems = << >> THEN << >> ELSE Clean(JoinPath(elems))

\* findMount of prepareMounts: the index of the mount it returns, 0 for nil;
\* of the destinations targetPath starts with, the last of the longest ones
findMount(mounts, targetPath) ==
  LET hits == { i \in 1 .. Len(mounts) : HasPrefix(targetPath, mounts[i].Destination) }
  IN IF hits = { } THEN 0
     ELSE CHOOSE i \in hits :
            \A j \in hits :
              \/ Len(mounts[j].Destination) < Len(mounts[i].Destination)
              \/ (Len(mounts[j].Destination) = Len(mounts[i].Destination) /\ j <= i)

BindOptions == << "ro", "rbind" >>

\* one iteration of the loop of prepareMounts: the mount for targetPath, or
\* the error the call returns
PrepareMount(mounts, targetPath) ==
  LET m == findMount(mounts, targetPath)
      hostBase == Rel(mounts[m].Destination, targetPath)
  IN IF ~IsAbs(targetPath) THEN [err |-> E("not a absolute path")]
     ELSE IF m = 0 THEN [err |-> E("not found mount path")]
     ELSE IF hostBase.err # NoErr THEN [err |-> Wrap(hostBase.err, "get rel path")]
     ELSE [err |-> NoErr,
           mount |-> [Type |-> "bind",
                      Source |-> Join2(mounts[m].Source, hostBase.path),
                      Target |-> TrimLeft(targetPath),
                      Options |-> BindOptions]]

\* the container mounts and the include paths prepareMounts is tried with
ContainerMounts ==
  { [Source |-> << "/", "h", "/", "o" >>, Destination |-> << "/", "g", "/", "o" >>],
    [Source |-> << "/", "h", "/", "r" >>, Destination |-> << "/", "g" >>],
    [Source |-> << "/", "h", "/", "x" >>, Destination |-> << "/", "g", "/", "o", "/", "f" >>] }
TargetPaths ==
  { << "/", "g", "/", "o", "/", "f" >>,
    << "/", "g", "/", "o", "/", "b" >>,
    << "/", "g", "/", "o" >>,
    << "/", "g", "/", "o", "2", "/", "f" >>,
    << "g", "/", "o", "/", "f" >>,
    << "/", "x" >> }

\* sequences over S of a length up to n
SeqsUpTo(S, n) == UNION { [1 .. k -> S] : k \in 0 .. n }

NoMounts == [isNil |-> TRUE, list |-> << >>]
PrepIdle == [pc |-> "loop", i |-> 1, targetMounts |-> << >>, mounts |-> NoMounts, err |-> NoErr]

\* --------------------------------------------- retry and scheme downgrade
\* remote.New(ref, resolverFunc): a client that speaks TLS
NewRemote == [withHTTP |-> FALSE, log |-> << >>]

\* remote.MaybeWithHTTP(err): the client is reconfigured to plain HTTP
MaybeWithHTTP(remote, e) == [remote EXCEPT !.withHTTP = TRUE]

\* one Push call of a client: the scheme it went over and its outcome
Attempt(remote, e) == [plain |-> remote.withHTTP, out |-> e]

\* WithRetry before its first call, and at its entry
RetryIdle == [pc |-> "idle", attempts |-> 0, err |-> NoErr, outs |-> << >>, ret |-> NoErr, n |-> 0]
RetryEntry(n) ==
  [pc |-> "loop", attempts |-> defaultRetryAttempts, err |-> NoErr, outs |-> << >>,
   ret |-> NoErr, n |-> n]

ConfigIdle == [pc |-> "idle", remote |-> NewRemote, ret |-> NoErr]

\* ----------------------------------------------------- object-store backend
\* a split into whole chunks only, without the part for the remainder
splitFileByPartSize_WholeChunks(blobSize, chunkSize) ==
  IF chunkSize <= 0
  THEN [chunks |-> << >>, err |-> E("invalid chunk size")]
  ELSE IF blobSize \div chunkSize >= PartLimit
  THEN [chunks |-> << >>, err |-> E("too many parts, please increase chunk size")]
  ELSE [chunks |-> [i \in 1 .. (blobSize \div chunkSize) |->
                      [Number |-> i, Offset |-> (i - 1) * chunkSize, Size |-> chunkSize]],
        err |-> NoErr]

\* splitFileByPartSize(blobSize, chunkSize): (chunks, err)
splitFileByPartSize(blobSize, chunkSize) ==
  LET chunkN == blobSize \div chunkSize
      whole == [i \in 1 .. chunkN |->
                  [Number |-> i, Offset |-> (i - 1) * chunkSize, Size |-> chunkSize]]
      last == IF blobSize % chunkSize > 0
              THEN << [Number |-> chunkN + 1, Offset |-> chunkN * chunkSize,
                       Size |-> blobSize % chunkSize] >>
              ELSE << >>
  IN IF chunkSize <= 0
     THEN [chunks |-> << >>, err |-> E("invalid chunk size")]
     ELSE IF chunkN >= PartLimit
     THEN [chunks |-> << >>, err |-> E("too many parts, please increase chunk size")]
     ELSE [chunks |-> whole \o last, err |-> NoErr]

\* the blob and chunk sizes the split is tried with: small blobs, and blobs
\* of about as many chunks as the split accepts
SmallSizes == 0 .. MaxBlobSize
LimitSizes ==
  UNION { (PartLimit * c - c - SplitSlack) .. (PartLimit * c + SplitSlack) : c \in 1 .. MaxChunkSize }
RejectedSizes == { PartLimit * MaxChunkSize + d : d \in 0 .. SplitSlack }

SplitIdle == [blobSize |-> 0, chunkSize |-> 1, done |-> FALSE, chunks |-> << >>, err |-> NoErr]

\* what UploadPart, and the other calls of the bucket, may answer
BucketOutcomes == { NoErr, E("oss"), E("connection refused") }

\* one part of a multipart upload: the WithRetry around its UploadPart
PartIdle == [pc |-> "run", attempts |-> defaultRetryAttempts, err |-> NoErr, calls |-> 0]

\* OSSBackend.push before its first statement
OSSIdle(forcePush, blobSize, chunkSize) ==
  [pc |-> "exist", forcePush |-> forcePush, blobSize |-> blobSize, chunkSize |-> chunkSize,
   exist |-> FALSE, chunks |-> << >>, imur |-> "none", initiated |-> 0, completed |-> 0,
   aborted |-> 0, part |-> << >>, gErr |-> NoErr, partsChan |-> << >>, ret |-> NoErr]

\* ------------------------------------------------------- Workflow.backend
\* wf.be is an interface value: nil, an *OSSBackend, a *Registry, or the nil
\* *OSSBackend a failed NewOSSBackend has returned, which is not the nil
\* interface
NilBackend == "nil"
NilOSSBackend == "(*OSSBackend)(nil)"

\* the Workflow after NewWorkflow: no backend, beMutex free, a registry
\* client not yet made
NoBackend ==
  [val |-> NilBackend, holder |-> 0, built |-> 0, failed |-> 0,
   withHTTP |-> FALSE, switchedUnder |-> FALSE]

\* a pushBlob call before wf.backend(targetRef)
CallerIdle == [pc |-> "call", be |-> NilBackend, err |-> NoErr]
Callers == 1 .. MaxCallers

\* ------------------------------------------------------------------ blobs
NoDigest == "nil"
NoBlob == [Name |-> "", Digest |-> ""]

\* task ids: 0 is the upper task, 1..nWith the include mounts (wave 1),
\* nWith+1.. the discovered mounts (wave 2)
TaskIds == 0 .. (MaxWithPaths + MaxMountList)
Wave1Ids == 0 .. opt.nWith
Wave2Ids == (opt.nWith + 1) .. (opt.nWith + Len(paths))
WaveIds(w) == IF w = 1 THEN Wave1Ids ELSE IF w = 2 THEN Wave2Ids ELSE {}

\* blob files named by the index of the mount alone, in wave 1 as in wave 2
BlobName_MountIndex(t) ==
  IF t = 0 THEN "blob-upper"
  ELSE IF t <= opt.nWith THEN "blob-mount-" \o ToString(t - 1)
  ELSE "blob-mount-" \o ToString(t - opt.nWith - 1)

\* the file name of the blob in the work directory
BlobName(t) ==
  IF t = 0 THEN "blob-upper"
  ELSE IF t <= opt.nWith THEN "blob-mount-" \o ToString(t - 1)
  ELSE "blob-appended-mount-" \o ToString(t - opt.nWith - 1)

\* digester.Digest() of the bytes the packer wrote for this blob
DigestOf(t) == "sha256:" \o BlobName(t)

IdleTask == [pc |-> "idle", total |-> 0, digest |-> NoDigest, ret |-> NoErr]
StartTask == [pc |-> "run", total |-> RetryTotal, digest |-> NoDigest, ret |-> NoErr]

\* path names the diff extractor reports, in traversal order
NestedPath(k) == "/nested" \o ToString(k)

\* ------------------------------------------------------------ descriptors
MediaTypeNydusBlob == "application/vnd.oci.image.layer.nydus.blob.v1"
MediaTypeImageLayerGzip == "application/vnd.oci.image.layer.v1.tar+gzip"
layerAnnotationNydusCommitBlobs == "containerd.io/snapshot/nydus-commit-blobs"
layerAnnotationNydusBlobIDs == "containerd.io/snapshot/nydus-blob-ids"

\* blobDesc of pushBlob, without its size
BlobDesc(d) ==
  [Digest |-> d,
   MediaType |-> MediaTypeNydusBlob,
   Annotations |-> ("containerd.io/uncompressed" :> d
                    @@ "containerd.io/snapshot/nydus-blob" :> "true")]

\* the bootstrap layer of a base image whose annotation is anno
BaseBootstrapDesc(anno) ==
  [Digest |-> "sha256:bootstrap-base.gz",
   MediaType |-> MediaTypeImageLayerGzip,
   Annotations |-> ("containerd.io/snapshot/nydus-fs-version" :> "5"
                    @@ "containerd.io/snapshot/nydus-bootstrap" :> "true"
                    @@ layerAnnotationNydusCommitBlobs :> anno)]

\* the manifest layers of the first base image: a blob layer, then its
\* bootstrap layer
BaseManifestLayers(anno) == << BlobDesc("sha256:lower"), BaseBootstrapDesc(anno) >>

\* ------------------------------------------------------------------- Init
BaseAnnos == { Join([i \in 1 .. n |-> << "sha256:base" \o ToString(i) >>]) : n \in 0 .. MaxBaseCount }

FreshCommit ==
  /\ pc = "start"
  /\ result = NoErr
  /\ err = NoErr
  /\ committedLayers = 0
  /\ pullCalls = 0
  /\ pauseCalls = 0
  /\ unpauseCalls = 0
  /\ paused = FALSE
  /\ pauseOK = FALSE
  /\ wave = 0
  /\ task = [t \in TaskIds |-> IdleTask]
  /\ egErr = NoErr
  /\ firstFail = -1
  /\ doneAfterFail = FALSE
  /\ paths = << >>
  /\ upperBlob = NoBlob
  /\ mountBlobs = << >>
  /\ commitErr = NoErr
  /\ mergeLayers = << >>
  /\ mergeCalls = 0
  /\ pubLog = << >>
  /\ pushedAnno = << >>
  /\ pushedDiffIDs = << >>
  /\ targetRef = << >>
  /\ workDir = "created"

\* ------------------------------------------------------------ blob files
MaxBlobBytes == 2
Bytes == { 1, 2 }

\* digest.SHA256 of a byte sequence: a value that tells any two of the
\* sequences of the model apart
RECURSIVE Hash(_)
Hash(bytes) ==
  IF bytes = << >> THEN 0
  ELSE 3 * Hash(SubSeq(bytes, 1, Len(bytes) - 1)) + bytes[Len(bytes)]

NoDesc == [Digest |-> NoDigest, Size |-> -1]

\* a blob task before its first attempt; file is what the work directory
\* holds under the blob's name, hashed what this attempt's digester was fed,
\* left what the last failed attempt left in the file
BlobStart ==
  [pc |-> "create", total |-> RetryTotal, file |-> << >>, hashed |-> << >>, left |-> << >>,
   digest |-> NoDigest, err |-> NoErr, desc |-> NoDesc, ret |-> NoErr]
BlobIdle == [BlobStart EXCEPT !.pc = "idle", !.total = 0]

\* -------------------------------------------------------- container manager
Sep == "://"
MaxAddrLen == 5
AddrTokens == { "docker", "pouch", "unknown", Sep }

EngineUnknown == << "unknown" >>
EngineDocker == << "docker" >>
EnginePouch == << "pouch" >>

\* strings.Split(s, "://")
RECURSIVE SplitSep(_)
SplitSep(s) ==
  IF \A i \in 1 .. Len(s) : s[i] # Sep THEN << s >>
  ELSE LET i == CHOOSE k \in 1 .. Len(s) :
                  s[k] = Sep /\ \A j \in 1 .. (k - 1) : s[j] # Sep
       IN << SubSeq(s, 1, i - 1) >> \o SplitSep(SubSeq(s, i + 1, Len(s)))

\* a parseID that takes an address with no engine prefix for a docker one
parseID_DefaultsToDocker(containerID) ==
  LET ids == SplitSep(containerID)
  IN IF Len(ids) = 1 THEN [engine |-> EngineDocker, id |-> ids[1], err |-> NoErr]
     ELSE IF Len(ids) = 2 THEN [engine |-> ids[1], id |-> ids[2], err |-> NoErr]
     ELSE [engine |-> << >>, id |-> << >>, err |-> E("invalid container id format")]

\* parseID: engine type and container id of an address
parseID(containerID) ==
  LET ids == SplitSep(containerID)
  IN IF Len(ids) = 1 THEN [engine |-> EngineUnknown, id |-> ids[1], err |-> NoErr]
     ELSE IF Len(ids) = 2 THEN [engine |-> ids[1], id |-> ids[2], err |-> NoErr]
     ELSE [engine |-> << >>, id |-> << >>, err |-> E("invalid container id format")]

\* Manager.getEngineAddr: the socket configured for the engine
getEngineAddr(engineType) ==
  IF engineType = EngineDocker THEN [addr |-> "cfg.DockerAddr", err |-> NoErr]
  ELSE IF engineType = EnginePouch THEN [addr |-> "cfg.PouchAddr", err |-> NoErr]
  ELSE [addr |-> "", err |-> E("invalid engine type")]

NoClient == "nil"

\* Manager.createClient: client.NewClient keeps the address, nothing is dialled
createClient(containerIDWithType) ==
  LET parsed == parseID(containerIDWithType)
      sock == getEngineAddr(parsed.engine)
      none == [engine |-> << >>, id |-> << >>, client |-> NoClient, err |-> NoErr]
  IN IF parsed.err # NoErr
     THEN [none EXCEPT !.err = Wrap(parsed.err, "parse container id")]
     ELSE IF sock.err # NoErr
     THEN [none EXCEPT !.err = Wrap(sock.err, "parse engine type")]
     ELSE [engine |-> parsed.engine, id |-> parsed.id, client |-> "unix://" \o sock.addr,
           err |-> NoErr]

MgrIdle == [addr |-> << >>, op |-> "none", pc |-> "idle", contacted |-> << >>, ret |-> NoErr]

\* ------------------------------------------------------- Manager.Inspect
Colon == ":"
MaxLowerDirs == 2
LowerDirNames == { "/l1", "/l2" }

\* strings.Split(s, ":")
RECURSIVE SplitColon(_)
SplitColon(s) ==
  LET i == IndexOf(s, Colon, 1)
  IN IF i = 0 THEN << s >>
     ELSE << SubSeq(s, 1, i - 1) >> \o SplitColon(SubSeq(s, i + 1, Len(s)))

\* the directories of a list written as one string with the separator sep
RECURSIVE Joined(_, _)
Joined(dirs, sep) ==
  IF dirs = << >> THEN << >>
  ELSE IF Len(dirs) = 1 THEN << dirs[1] >>
  ELSE << dirs[1], sep >> \o Joined(Tail(dirs), sep)

\* findOverlayLowerdirs(opts): the value of the first option that starts with
\* "lowerdir=", split on ":"; nil when there is none
findOverlayLowerdirs(opts) ==
  LET hits == { i \in 1 .. Len(opts) : opts[i] # << >> /\ opts[i][1] = "lowerdir=" }
  IN IF hits = { } THEN [idx |-> -1, dirs |-> << >>]
     ELSE LET idx == CHOOSE i \in hits : \A j \in hits : i <= j
          IN [idx |-> idx, dirs |-> SplitColon(Tail(opts[idx]))]

\* GetLowerDirs(mountpoint), info the answer of mount.Lookup
GetLowerDirs(info) ==
  IF ~info.found THEN [dirs |-> << >>, err |-> E("lookup mount info")]
  ELSE [dirs |-> findOverlayLowerdirs(Split(info.VFSOptions)).dirs, err |-> NoErr]

\* the lowerDirs of Manager.Inspect: the engine's LowerDir field as it is, or
\* for docker the lowerdir option of the merged directory's mount joined by ","
InspectLowerDirs(engineType, field, info) ==
  IF engineType # EngineDocker THEN [val |-> field, err |-> NoErr]
  ELSE LET got == GetLowerDirs(info)
       IN IF got.err # NoErr
          THEN [val |-> << >>, err |-> Wrap(got.err, "get lower dirs for docker")]
          ELSE [val |-> Join(got.dirs), err |-> NoErr]

\* a field the container's JSON does not have
Absent == << "<absent>" >>

\* Manager.inspectImage: the string at a JSON path, a valid image name
inspectImage(value) ==
  IF value = Absent THEN [image |-> << >>, err |-> Wrap(E("json path"), "find json path")]
  ELSE IF value = << >> THEN [image |-> << >>, err |-> E("empty image name")]
  ELSE IF ParseDockerRef(value).err # NoErr
  THEN [image |-> << >>, err |-> Wrap(E("invalid reference"), "invalid image name")]
  ELSE [image |-> value, err |-> NoErr]

\* an Inspect that tries Config.Image when the label's image is no nydus image
InspectImage_AnyWithSuffix(label, cfgImage) ==
  LET first == inspectImage(label)
      second == inspectImage(cfgImage)
  IN IF first.err = NoErr /\ HasNydusSuffix(first.image).has THEN first
     ELSE IF second.err # NoErr
     THEN [second EXCEPT !.err = Wrap(@, "inspect container image name")]
     ELSE second

\* the image of Manager.Inspect: the label io.kubernetes.container.image,
\* and Config.Image when inspectImage fails on the label
InspectImage(label, cfgImage) ==
  LET first == inspectImage(label)
      second == inspectImage(cfgImage)
  IN IF first.err = NoErr THEN first
     ELSE IF second.err # NoErr
     THEN [second EXCEPT !.err = Wrap(@, "inspect container image name")]
     ELSE second

NoInspect == [LowerDirs |-> << >>, Image |-> << >>]
InspIdle ==
  [pc |-> "idle", engine |-> << >>, dirs |-> << >>, field |-> << >>,
   info |-> [found |-> FALSE, VFSOptions |-> << >>], label |-> Absent, cfgImage |-> Absent,
   res |-> NoInspect, err |-> NoErr]

\* --target of the commits of a chain: a tagged reference, a digest-pinned
\* one, one that does not parse
CommitTargetRefs == { << "nginx", ":", "v" >>, << "nginx", "@", "sha256:0123" >>, << "NGINX" >> }

NoResult == [done |-> FALSE, ref |-> << >>, err |-> NoErr]
NoHas == [done |-> FALSE, has |-> FALSE, err |-> NoErr]

\* nothing has been applied yet
RefIdle ==
  /\ again = NoResult
  /\ hasSuffix = NoHas
MountsIdle ==
  /\ containerMounts = << >>
  /\ targetPaths = << >>
  /\ prep = PrepIdle
PushIdle ==
  /\ withRetry = RetryIdle
  /\ regRemote = NewRemote
  /\ cfgPush = ConfigIdle
BackendIdle ==
  /\ wfBe = NoBackend
  /\ caller = [c \in Callers |-> CallerIdle]
FileIdle ==
  /\ blobFile = BlobIdle
  /\ mgr = MgrIdle
  /\ insp = InspIdle
LaterIdle ==
  /\ split = SplitIdle
  /\ ossPush = OSSIdle(FALSE, 0, 1)
  /\ BackendIdle
  /\ FileIdle
AuxIdle ==
  /\ RefIdle
  /\ MountsIdle
  /\ PushIdle
  /\ LaterIdle

Init ==
  /\ opt \in [pause : BOOLEAN, nWith : 0 .. MaxWithPaths, maxTimes : 0 .. MaxTimes,
               TargetRef : CommitTargetRefs]
  /\ nested \in 0 .. MaxNested
  /\ baseAnno \in BaseAnnos
  /\ external \in BOOLEAN
  /\ baseLayers = BaseManifestLayers(baseAnno)
  /\ registry = << >>
  /\ registryLayers = << >>
  /\ succCommits = 0
  /\ FreshCommit
  /\ AuxIdle

\* the variables of the functions checked on their own
refAux == << again, hasSuffix >>
mountAux == << containerMounts, targetPaths, prep >>
pushAux == << withRetry, regRemote, cfgPush >>
ossAux == << split, ossPush >>
beAux == << wfBe, caller >>
fileAux == << blobFile, mgr, insp >>
laterAux == << ossAux, beAux, fileAux >>
aux == << refAux, mountAux, pushAux, laterAux >>
given == << opt, nested, baseAnno, external, baseLayers, registry, registryLayers, succCommits,
           aux, workDir >>
inputs == << given, targetRef >>
waveVars == << wave, task, egErr, firstFail, doneAfterFail, paths, upperBlob, mountBlobs >>
pubVars == << mergeLayers, mergeCalls, pubLog, pushedAnno, pushedDiffIDs >>
engineVars == << pauseCalls, unpauseCalls, paused, pauseOK >>
\* the variables of Commit
commitVars == << opt, nested, baseAnno, external, baseLayers, registry, registryLayers,
                succCommits, targetRef, pc, result, err, committedLayers, pullCalls,
                engineVars, waveVars, commitErr, pubVars, workDir >>

\* Commit returns e
Return(e) ==
  /\ pc' = "returned"
  /\ result' = e

\* ------------------------------------------------- Commit, before the waves
\* distribution.AppendNydusSuffix(opt.TargetRef)
AppendSuffixStep ==
  /\ pc = "start"
  /\ LET r == AppendNydusSuffix(opt.TargetRef)
     IN IF r.err = NoErr
        THEN /\ targetRef' = r.ref
             /\ pc' = "inspect"
             /\ result' = result
        ELSE /\ targetRef' = targetRef
             /\ Return(Wrap(r.err, "parse target image name"))
  /\ UNCHANGED << given, err, committedLayers, pullCalls, engineVars, waveVars,
                  commitErr, pubVars >>

\* wf.cm.Inspect(ctx, opt.ContainerIDWithType)
InspectStep ==
  /\ pc = "inspect"
  /\ \E ok \in BOOLEAN :
       IF ok THEN pc' = "pull" /\ result' = result
       ELSE Return(Wrap(E("inspect"), "inspect container"))
  /\ UNCHANGED << inputs, err, committedLayers, pullCalls, engineVars, waveVars,
                  commitErr, pubVars >>

\* committedLayers as pullBootstrap computes it from the annotation
CommittedLayers(anno) == IF anno # << >> THEN Len(Split(anno)) ELSE 0

\* wf.pullBootstrap(ctx, inspect.Image, "bootstrap-base")
PullBootstrapStep ==
  /\ pc = "pull"
  /\ pullCalls' = pullCalls + 1
  /\ \E ok \in BOOLEAN :
       IF ok
       THEN /\ committedLayers' = CommittedLayers(baseAnno)
            /\ pc' = "gate"
            /\ result' = result
       ELSE /\ committedLayers' = committedLayers
            /\ Return(Wrap(E("pull"), "pull base bootstrap"))
  /\ UNCHANGED << inputs, err, engineVars, waveVars, commitErr, pubVars >>

\* a gate that lets the count reach the maximum
ReachedMaximum_Strict(committed, maximumTimes) == committed > maximumTimes

\* the test of the maximum-times gate
ReachedMaximum(committed, maximumTimes) == committed >= maximumTimes

\* eg.Go of the upper task and of one task per include mount;
\* mountBlobs := make([]Blob, len(opt.WithPaths))
SpawnWave1 ==
  /\ wave' = 1
  /\ task' = [t \in TaskIds |-> IF t \in Wave1Ids THEN StartTask ELSE IdleTask]
  /\ mountBlobs' = [i \in 1 .. opt.nWith |-> NoBlob]
  /\ egErr' = NoErr
  /\ UNCHANGED << firstFail, doneAfterFail, paths, upperBlob >>

\* if committedLayers >= opt.MaximumTimes { return ... }, then the start of
\* commit() when no pause was asked for
GateStep ==
  /\ pc = "gate"
  /\ IF ReachedMaximum(committedLayers, opt.maxTimes)
     THEN /\ Return(E("reached maximum committed times"))
          /\ UNCHANGED waveVars
     ELSE IF opt.pause
     THEN /\ pc' = "pause"
          /\ result' = result
          /\ UNCHANGED waveVars
     ELSE /\ pc' = "wave1"
          /\ result' = result
          /\ SpawnWave1
  /\ UNCHANGED << inputs, err, committedLayers, pullCalls, engineVars, commitErr, pubVars >>

\* a pause step that calls handle() whatever wf.cm.Pause returned
PauseStep_IgnoresFailure ==
  /\ pc = "pause"
  /\ pauseCalls' = pauseCalls + 1
  /\ \E ok \in BOOLEAN :
       /\ paused' = ok
       /\ pauseOK' = ok
       /\ pc' = "wave1"
       /\ result' = result
       /\ SpawnWave1
  /\ UNCHANGED << inputs, err, committedLayers, pullCalls, unpauseCalls, commitErr, pubVars >>

\* wf.pause: wf.cm.Pause, then handle() starts
PauseStep ==
  /\ pc = "pause"
  /\ pauseCalls' = pauseCalls + 1
  /\ \E ok \in BOOLEAN :
       IF ok
       THEN /\ paused' = TRUE
            /\ pauseOK' = TRUE
            /\ pc' = "wave1"
            /\ result' = result
            /\ SpawnWave1
       ELSE /\ paused' = paused
            /\ pauseOK' = FALSE
            /\ Return(Wrap(Wrap(E("pause"), "pause container"), "pause container to commit"))
            /\ UNCHANGED waveVars
  /\ UNCHANGED << inputs, err, committedLayers, pullCalls, unpauseCalls, commitErr, pubVars >>

\* ------------------------------------------------------------ the wave tasks
Finished(t) == task[t].pc \in {"done", "failed"}

\* how many nested mounts an attempt of diff.Diff reports through
\* appendMount: all of them when it succeeds, a prefix when it fails
DiffReports(ok) ==
  { k \in (IF ok THEN { nested } ELSE 0 .. nested) :
      k = 0 \/ Len(paths) + k <= MaxMountList }

\* one call of the closure given to withRetry: total--, then
\* digest, err = wf.commitUpperByDiff(...) or wf.commitMountByNSEnter(...)
\* (os.Create, converter.Pack, the extraction, tarWc.Close)
TaskAttempt(t) ==
  /\ pc \in {"wave1", "wave2"}
  /\ task[t].pc = "run"
  /\ \E ok \in BOOLEAN :
       /\ IF t = 0
          THEN \E k \in DiffReports(ok) :
                 paths' = paths \o [i \in 1 .. k |-> NestedPath(i)]
          ELSE paths' = paths
       /\ task' = [task EXCEPT ![t] = [@ EXCEPT !.pc = "ret",
                                                 !.total = @ - 1,
                                                 !.digest = IF ok THEN DigestOf(t) ELSE NoDigest]]
       /\ err' = IF ok THEN NoErr ELSE PackErr(t)
  /\ UNCHANGED << inputs, pc, result, committedLayers, pullCalls, engineVars, wave,
                  egErr, firstFail, doneAfterFail, upperBlob, mountBlobs, commitErr,
                  pubVars >>

\* errgroup.Group: the goroutine of a task returned e; errOnce keeps the first
GroupErr(e) == IF egErr = NoErr THEN e ELSE egErr

\* the goroutine of task t returns e # nil
TaskFails(t, e) ==
  /\ task' = [task EXCEPT ![t] = [@ EXCEPT !.pc = "failed", !.total = 0, !.ret = e]]
  /\ egErr' = GroupErr(e)
  /\ firstFail' = IF firstFail = -1 THEN t ELSE firstFail
  /\ doneAfterFail' = doneAfterFail

\* the message a wave task wraps a failed withRetry with
CommitMsg(t) ==
  IF t = 0 THEN "commit upper"
  ELSE IF t <= opt.nWith THEN "commit mount"
  ELSE "commit appended mount"

\* what withRetry does with the value its handle returned:
\* "ok" return nil, "retry" call handle again, "fail" return the error
RetryDecision(e, total) ==
  IF e = NoErr THEN "ok"
  ELSE IF total > 0 THEN "retry"
  ELSE "fail"

\* a wave task that goes on to pushBlob whenever withRetry returned nil, with
\* whatever its blob file holds, the digest of a failed attempt included
TaskRet_PushesWithoutDigest(t) ==
  /\ pc \in {"wave1", "wave2"}
  /\ task[t].pc = "ret"
  /\ LET d == RetryDecision(err, task[t].total)
     IN CASE d = "ok" ->
               /\ task' = [task EXCEPT ![t] = [@ EXCEPT !.pc = "push", !.total = 0]]
               /\ UNCHANGED << pc, egErr, firstFail, doneAfterFail >>
          [] d = "retry" ->
               /\ task' = [task EXCEPT ![t] = [@ EXCEPT !.pc = "run"]]
               /\ UNCHANGED << pc, egErr, firstFail, doneAfterFail >>
          [] d = "fail" ->
               /\ TaskFails(t, Wrap(err, CommitMsg(t)))
               /\ pc' = pc
  /\ UNCHANGED << inputs, result, err, committedLayers, pullCalls, engineVars, wave,
                  paths, upperBlob, mountBlobs, commitErr, pubVars >>

\* the closure's "return err" (err is the variable shared by all closures),
\* withRetry's test of it, and the dereference of the digest pointer when
\* withRetry returned nil
TaskRet(t) ==
  /\ pc \in {"wave1", "wave2"}
  /\ task[t].pc = "ret"
  /\ LET d == RetryDecision(err, task[t].total)
     IN CASE d = "ok" /\ task[t].digest = NoDigest ->
               \* *mountBlobDigest on a nil pointer: the process panics
               /\ pc' = "crashed"
               /\ UNCHANGED << task, egErr, firstFail, doneAfterFail >>
          [] d = "ok" /\ task[t].digest # NoDigest ->
               /\ task' = [task EXCEPT ![t] = [@ EXCEPT !.pc = "push", !.total = 0]]
               /\ UNCHANGED << pc, egErr, firstFail, doneAfterFail >>
          [] d = "retry" ->
               /\ task' = [task EXCEPT ![t] = [@ EXCEPT !.pc = "run"]]
               /\ UNCHANGED << pc, egErr, firstFail, doneAfterFail >>
          [] d = "fail" ->
               /\ TaskFails(t, Wrap(err, CommitMsg(t)))
               /\ pc' = pc
  /\ UNCHANGED << inputs, result, err, committedLayers, pullCalls, engineVars, wave,
                  paths, upperBlob, mountBlobs, commitErr, pubVars >>

PushMsg(t) ==
  IF t = 0 THEN "push upper blob"
  ELSE IF t <= opt.nWith THEN "push mount blob"
  ELSE "push appended mount blob"

\* a task that appends its blob to mountBlobs in the order the pushes finish,
\* in wave 1 as in wave 2
TaskPush_AppendAlways(t) ==
  /\ pc \in {"wave1", "wave2"}
  /\ task[t].pc = "push"
  /\ \E ok \in BOOLEAN :
       IF ok
       THEN LET blob == [Name |-> BlobName(t), Digest |-> task[t].digest]
            IN /\ task' = [task EXCEPT ![t] = [@ EXCEPT !.pc = "done"]]
               /\ doneAfterFail' = (doneAfterFail \/ firstFail # -1)
               /\ UNCHANGED << egErr, firstFail >>
               /\ upperBlob' = IF t = 0 THEN blob ELSE upperBlob
               /\ mountBlobs' = IF t = 0 THEN mountBlobs ELSE Append(mountBlobs, blob)
       ELSE /\ TaskFails(t, Wrap(PushErr(t), PushMsg(t)))
            /\ UNCHANGED << upperBlob, mountBlobs >>
  /\ UNCHANGED << inputs, pc, result, err, committedLayers, pullCalls, engineVars, wave,
                  paths, commitErr, pubVars >>

\* wf.pushBlob and the recording of the blob
TaskPush(t) ==
  /\ pc \in {"wave1", "wave2"}
  /\ task[t].pc = "push"
  /\ \E ok \in BOOLEAN :
       IF ok
       THEN LET blob == [Name |-> BlobName(t), Digest |-> task[t].digest]
            IN /\ task' = [task EXCEPT ![t] = [@ EXCEPT !.pc = "done"]]
               /\ doneAfterFail' = (doneAfterFail \/ firstFail # -1)
               /\ UNCHANGED << egErr, firstFail >>
               /\ upperBlob' = IF t = 0 THEN blob ELSE upperBlob
               /\ mountBlobs' = IF t = 0 THEN mountBlobs
                                ELSE IF t <= opt.nWith THEN [mountBlobs EXCEPT ![t] = blob]
                                ELSE Append(mountBlobs, blob)
       ELSE /\ TaskFails(t, Wrap(PushErr(t), PushMsg(t)))
            /\ UNCHANGED << upperBlob, mountBlobs >>
  /\ UNCHANGED << inputs, pc, result, err, committedLayers, pullCalls, engineVars, wave,
                  paths, commitErr, pubVars >>

\* a Wait that returns at the first error, leaving the siblings behind
WaitReturns_FirstError(ids) ==
  \/ \A t \in ids : Finished(t)
  \/ \E t \in ids : task[t].pc = "failed"

\* eg.Wait() returns once every goroutine of the group has returned
WaitReturns(ids) == \A t \in ids : Finished(t)

\* a commit() that drops the error of the first eg.Wait()
SkipWave2_Never(e) == FALSE

\* "if err := eg.Wait(); err != nil { return err }": wave 2 is not started
SkipWave2(e) == e # NoErr

\* eg.Wait() of wave 1, then either commit() returns its error or wave 2 is spawned
JoinWave1 ==
  /\ pc = "wave1"
  /\ WaitReturns(Wave1Ids)
  /\ IF SkipWave2(egErr)
     THEN /\ commitErr' = egErr
          /\ pc' = "afterCommit"
          /\ UNCHANGED << wave, task, egErr >>
     ELSE /\ wave' = 2
          /\ task' = [t \in TaskIds |-> IF t \in Wave2Ids THEN StartTask ELSE task[t]]
          /\ egErr' = NoErr
          /\ pc' = "wave2"
          /\ commitErr' = commitErr
  /\ UNCHANGED << inputs, result, err, committedLayers, pullCalls, engineVars,
                  firstFail, doneAfterFail, paths, upperBlob, mountBlobs, pubVars >>

\* return appendedEg.Wait()
JoinWave2 ==
  /\ pc = "wave2"
  /\ WaitReturns(Wave2Ids)
  /\ commitErr' = egErr
  /\ pc' = "afterCommit"
  /\ UNCHANGED << inputs, result, err, committedLayers, pullCalls, engineVars,
                  waveVars, pubVars >>

\* ------------------------------------------------ Commit, after the waves
\* a pause bracket that forgets the unpause on the error path
UnpauseAfterFailure_NoUnpause ==
  /\ pc = "afterCommit"
  /\ opt.pause
  /\ commitErr # NoErr
  /\ Return(Wrap(commitErr, "pause container to commit"))
  /\ UNCHANGED << inputs, err, committedLayers, pullCalls, engineVars, waveVars,
                  commitErr, pubVars >>

\* a pause bracket that returns the unpause error when the unpause fails
UnpauseAfterFailure_UnpauseErrWins ==
  /\ pc = "afterCommit"
  /\ opt.pause
  /\ commitErr # NoErr
  /\ unpauseCalls' = unpauseCalls + 1
  /\ \E ok \in BOOLEAN :
       /\ paused' = ~ok
       /\ IF ok THEN Return(Wrap(commitErr, "pause container to commit"))
          ELSE Return(Wrap(E("unpause"), "pause container to commit"))
  /\ UNCHANGED << pauseCalls, pauseOK >>
  /\ UNCHANGED << inputs, err, committedLayers, pullCalls, waveVars, commitErr, pubVars >>

\* wf.pause, handle() returned an error: unpause, log an unpause error,
\* return the error of handle()
UnpauseAfterFailure ==
  /\ pc = "afterCommit"
  /\ opt.pause
  /\ commitErr # NoErr
  /\ unpauseCalls' = unpauseCalls + 1
  /\ \E ok \in BOOLEAN : paused' = ~ok
  /\ Return(Wrap(commitErr, "pause container to commit"))
  /\ UNCHANGED << pauseCalls, pauseOK >>
  /\ UNCHANGED << inputs, err, committedLayers, pullCalls, waveVars, commitErr, pubVars >>

\* wf.pause, handle() returned nil: return wf.cm.UnPause(...)
UnpauseAfterSuccess ==
  /\ pc = "afterCommit"
  /\ opt.pause
  /\ commitErr = NoErr
  /\ unpauseCalls' = unpauseCalls + 1
  /\ \E ok \in BOOLEAN :
       /\ paused' = ~ok
       /\ IF ok THEN pc' = "merge" /\ result' = result
          ELSE Return(Wrap(E("unpause"), "pause container to commit"))
  /\ UNCHANGED << pauseCalls, pauseOK >>
  /\ UNCHANGED << inputs, err, committedLayers, pullCalls, waveVars, commitErr, pubVars >>

\* a Commit that does not test the error of commit()
AfterCommitNoPause_IgnoresError ==
  /\ pc = "afterCommit"
  /\ ~opt.pause
  /\ pc' = "merge"
  /\ result' = result
  /\ UNCHANGED << inputs, err, committedLayers, pullCalls, engineVars, waveVars,
                  commitErr, pubVars >>

\* Commit without --pause-container: if err := commit(); err != nil { return err }
AfterCommitNoPause ==
  /\ pc = "afterCommit"
  /\ ~opt.pause
  /\ IF commitErr # NoErr THEN Return(commitErr)
     ELSE pc' = "merge" /\ result' = result
  /\ UNCHANGED << inputs, err, committedLayers, pullCalls, engineVars, waveVars,
                  commitErr, pubVars >>

\* a merge input with the mount blobs first and the upper blob last
MergeInput_UpperLast(upper, mounts) ==
  [i \in 1 .. Len(mounts) |-> mounts[i].Digest] \o << upper.Digest >>

\* the layers mergeBootstrap hands to converter.Merge
MergeInput(upper, mounts) ==
  << upper.Digest >> \o [i \in 1 .. Len(mounts) |-> mounts[i].Digest]

\* wf.mergeBootstrap(ctx, *upperBlob, mountBlobs, ...)
MergeStep ==
  /\ pc = "merge"
  /\ IF upperBlob = NoBlob
     THEN \* *upperBlob on a nil pointer
          /\ pc' = "crashed"
          /\ UNCHANGED << result, err, mergeLayers, mergeCalls >>
     ELSE /\ mergeCalls' = mergeCalls + 1
          /\ mergeLayers' = MergeInput(upperBlob, mountBlobs)
          /\ \E ok \in BOOLEAN :
               IF ok THEN /\ pc' = "pushConfig"
                          /\ result' = result
                          /\ err' = NoErr
               ELSE /\ Return(Wrap(Wrap(E("merge"), "merge bootstraps"), "merge bootstrap"))
                    /\ err' = Wrap(E("merge"), "merge bootstraps")
  /\ UNCHANGED << inputs, committedLayers, pullCalls, engineVars, waveVars, commitErr,
                  pubLog, pushedAnno, pushedDiffIDs >>

\* ------------------------------------------------------------ pushManifest
\* a filter that keeps every layer of the base manifest
LowerBlobLayers_NoFilter(layers) == layers

\* lowerBlobLayers: the layers of the base manifest whose media type is the
\* nydus blob's
LowerBlobLayers(layers) == SelectSeq(layers, LAMBDA l : l.MediaType = MediaTypeNydusBlob)

\* digester.Digest() of the merged bootstrap tar, returned by mergeBootstrap
BootstrapDiffID == "sha256:bootstrap-merged.tar"

\* a config whose diff-id list ends with the upper blob, the bootstrap left out
DiffIDs_BlobsOnly(ext, layers, upper, mounts) ==
  IF ext THEN << BootstrapDiffID >>
  ELSE LET lower == LowerBlobLayers(layers)
       IN [i \in 1 .. Len(lower) |-> lower[i].Digest]
          \o [i \in 1 .. Len(mounts) |-> mounts[i].Digest]
          \o << upper.Digest >>

\* config.RootFS.DiffIDs of the new image config
DiffIDs(ext, layers, upper, mounts) ==
  IF ext THEN << BootstrapDiffID >>
  ELSE LET lower == LowerBlobLayers(layers)
       IN [i \in 1 .. Len(lower) |-> lower[i].Digest]
          \o [i \in 1 .. Len(mounts) |-> mounts[i].Digest]
          \o << upper.Digest, BootstrapDiffID >>

\* digest.Hex(): the digest without its algorithm prefix
Hex(d) == CHOOSE n \in { BlobName(t) : t \in TaskIds } : "sha256:" \o n = d

\* blobIDs: the hex of every digest converter.Merge returned
BlobIDs(blobDigests) == [i \in 1 .. Len(blobDigests) |-> Hex(blobDigests[i])]

\* a RetryWithHTTP that takes no error for one of the downgrade class
RetryWithHTTP_Never(e) == FALSE

\* a RetryWithHTTP that only knows the refused connection
RetryWithHTTP_RefusedOnly(e) == e # NoErr /\ e.kind = "connection refused"

\* remote.RetryWithHTTP(err)
RetryWithHTTP(e) == e # NoErr /\ e.kind \in {"http response to https client", "connection refused"}

\* one remoter.Push call and whether it succeeded
Pushed(what, ok) == [what |-> what, ok |-> ok]

PushOutcomes == { NoErr, E("http response to https client"), E("connection refused"), E("push") }

\* push of the image config, with the switch to plain HTTP
PushConfigStep ==
  /\ pc = "pushConfig"
  /\ \E e1 \in PushOutcomes :
       IF e1 = NoErr
       THEN /\ pubLog' = Append(pubLog, Pushed("config", TRUE))
            /\ pushedDiffIDs' = DiffIDs(external, baseLayers, upperBlob, mountBlobs)
            /\ pc' = "pushBootstrap"
            /\ result' = result
       ELSE IF RetryWithHTTP(e1)
       THEN \E e2 \in PushOutcomes :
              /\ pubLog' = pubLog \o << Pushed("config", FALSE), Pushed("config", e2 = NoErr) >>
              /\ IF e2 = NoErr
                 THEN /\ pushedDiffIDs' = DiffIDs(external, baseLayers, upperBlob, mountBlobs)
                      /\ pc' = "pushBootstrap"
                      /\ result' = result
                 ELSE /\ pushedDiffIDs' = pushedDiffIDs
                      /\ Return(Wrap(Wrap(e2, "push image config"), "push manifest"))
       ELSE /\ pubLog' = Append(pubLog, Pushed("config", FALSE))
            /\ pushedDiffIDs' = pushedDiffIDs
            /\ Return(Wrap(Wrap(e1, "push image config"), "push manifest"))
  /\ UNCHANGED << inputs, err, committedLayers, pullCalls, engineVars, waveVars,
                  commitErr, mergeLayers, mergeCalls, pushedAnno >>

\* commitBlobs of pushManifest: the digests of the mount blobs, then the upper's
CommitBlobs(upper, mounts) ==
  [i \in 1 .. Len(mounts) |-> << mounts[i].Digest >>] \o << << upper.Digest >> >>

\* the nydus-commit-blobs annotation of the new bootstrap descriptor
CommitBlobsAnnotation(upper, mounts) == Join(CommitBlobs(upper, mounts))

\* bootstrapDesc: the descriptor of the gzipped merged bootstrap
BootstrapDesc(ext, upper, mounts, blobDigests) ==
  LET annotations == "containerd.io/snapshot/nydus-fs-version" :> "5"
                     @@ "containerd.io/snapshot/nydus-bootstrap" :> "true"
                     @@ layerAnnotationNydusCommitBlobs :> CommitBlobsAnnotation(upper, mounts)
  IN [Digest |-> "sha256:bootstrap-merged.tar.gz",
      MediaType |-> MediaTypeImageLayerGzip,
      Annotations |-> IF ext
                      THEN annotations @@ layerAnnotationNydusBlobIDs :> BlobIDs(blobDigests)
                      ELSE annotations]

\* a manifest that lists the blob layers whatever the backend
ManifestLayers_AlwaysAll(ext, layers, upper, mounts, bootstrapDesc) ==
  LowerBlobLayers(layers)
  \o [i \in 1 .. Len(mounts) |-> BlobDesc(mounts[i].Digest)]
  \o << BlobDesc(upper.Digest), bootstrapDesc >>

\* nydusImage.Manifest.Layers of the new manifest
ManifestLayers(ext, layers, upper, mounts, bootstrapDesc) ==
  IF ext THEN << bootstrapDesc >>
  ELSE LowerBlobLayers(layers)
       \o [i \in 1 .. Len(mounts) |-> BlobDesc(mounts[i].Digest)]
       \o << BlobDesc(upper.Digest), bootstrapDesc >>

\* a pushManifest that goes on to the manifest after a failed bootstrap push
PushBootstrapStep_IgnoresFailure ==
  /\ pc = "pushBootstrap"
  /\ pushedAnno' = CommitBlobsAnnotation(upperBlob, mountBlobs)
  /\ \E ok \in BOOLEAN : pubLog' = Append(pubLog, Pushed("bootstrap", ok))
  /\ pc' = "pushManifest"
  /\ result' = result
  /\ UNCHANGED << inputs, err, committedLayers, pullCalls, engineVars, waveVars,
                  commitErr, mergeLayers, mergeCalls, pushedDiffIDs >>

\* gzip of the merged bootstrap, its descriptor, push of the bootstrap layer
PushBootstrapStep ==
  /\ pc = "pushBootstrap"
  /\ \E io \in BOOLEAN :
       IF ~io
       THEN \* a file operation on the bootstrap tar failed before the push
            /\ Return(Wrap(Wrap(E("io"), "compress bootstrap tar to tar.gz"), "push manifest"))
            /\ UNCHANGED << pubLog, pushedAnno >>
       ELSE /\ pushedAnno' = CommitBlobsAnnotation(upperBlob, mountBlobs)
            /\ \E ok \in BOOLEAN :
                 /\ pubLog' = Append(pubLog, Pushed("bootstrap", ok))
                 /\ IF ok THEN pc' = "pushManifest" /\ result' = result
                    ELSE Return(Wrap(Wrap(E("push"), "push bootstrap layer"), "push manifest"))
  /\ UNCHANGED << inputs, err, committedLayers, pullCalls, engineVars, waveVars,
                  commitErr, mergeLayers, mergeCalls, pushedDiffIDs >>

\* push of the image manifest under the target tag; Commit returns
PushManifestStep ==
  /\ pc = "pushManifest"
  /\ \E ok \in BOOLEAN :
       /\ pubLog' = Append(pubLog, Pushed("manifest", ok))
       /\ IF ok
          THEN /\ registry' = pushedAnno
               /\ registryLayers' =
                    ManifestLayers(external, baseLayers, upperBlob, mountBlobs,
                                   BootstrapDesc(external, upperBlob, mountBlobs, mergeLayers))
               /\ succCommits' = succCommits + 1
               /\ Return(NoErr)
          ELSE /\ Return(Wrap(Wrap(E("push"), "push image manifest"), "push manifest"))
               /\ UNCHANGED << registry, registryLayers, succCommits >>
  /\ UNCHANGED << opt, nested, baseAnno, external, baseLayers, err, committedLayers,
                  pullCalls, engineVars, waveVars, commitErr, mergeLayers, mergeCalls,
                  pushedAnno, pushedDiffIDs, targetRef, aux, workDir >>

\* ------------------------------------------------- the end of the process
\* the deferred wf.Destory() of the commit action, run when Commit has
\* returned: os.RemoveAll(wf.workDir)
DestoryStep ==
  /\ pc = "returned"
  /\ workDir = "created"
  /\ workDir' = "removed"
  /\ UNCHANGED << opt, nested, baseAnno, external, baseLayers, registry, registryLayers,
                  succCommits, aux, targetRef, pc, result, err, committedLayers, pullCalls,
                  engineVars, waveVars, commitErr, pubVars >>

\* ------------------------------------------------------------ the chain
\* the tool is run again on a container of the image it has just pushed
NextCommit ==
  /\ pc = "returned"
  /\ result = NoErr
  /\ workDir = "removed"
  /\ workDir' = "created"
  /\ succCommits < MaxChain
  /\ baseAnno' = registry
  /\ pc' = "start"
  /\ result' = NoErr
  /\ err' = NoErr
  /\ committedLayers' = 0
  /\ pullCalls' = 0
  /\ pauseCalls' = 0
  /\ unpauseCalls' = 0
  /\ paused' = FALSE
  /\ pauseOK' = FALSE
  /\ wave' = 0
  /\ task' = [t \in TaskIds |-> IdleTask]
  /\ egErr' = NoErr
  /\ firstFail' = -1
  /\ doneAfterFail' = FALSE
  /\ paths' = << >>
  /\ upperBlob' = NoBlob
  /\ mountBlobs' = << >>
  /\ commitErr' = NoErr
  /\ mergeLayers' = << >>
  /\ mergeCalls' = 0
  /\ pubLog' = << >>
  /\ pushedAnno' = << >>
  /\ pushedDiffIDs' = << >>
  /\ baseLayers' = registryLayers
  /\ targetRef' = << >>
  /\ UNCHANGED << opt, nested, external, registry, registryLayers, succCommits, aux >>

Next ==
  \/ AppendSuffixStep
  \/ InspectStep
  \/ PullBootstrapStep
  \/ GateStep
  \/ PauseStep
  \/ \E t \in TaskIds : TaskAttempt(t)
  \/ \E t \in TaskIds : TaskRet(t)
  \/ \E t \in TaskIds : TaskPush(t)
  \/ JoinWave1
  \/ JoinWave2
  \/ UnpauseAfterFailure
  \/ UnpauseAfterSuccess
  \/ AfterCommitNoPause
  \/ MergeStep
  \/ PushConfigStep
  \/ PushBootstrapStep
  \/ PushManifestStep
  \/ DestoryStep
  \/ NextCommit

Spec == Init /\ [][Next]_vars

\* ------------------------------------- the reference functions on their own
\* k times the character c
Rep(c, k) == [i \in 1 .. k |-> c]

\* tags: short ones and ones about as long as the grammar allows, ending
\* with the suffix, with a part of it, with more than it, or without it
TagBodies == { Rep("v", k) : k \in (0 .. MaxTagBody) \cup ((TagMaxLen - TagSlack) .. TagMaxLen) }
TagTails == { << >>, NydusRefSuffix, SubSeq(NydusRefSuffix, 1, 8), NydusRefSuffix \o << "v" >> }
Tags == { b \o t : b \in TagBodies, t \in TagTails }

\* references: a name as written by the user, valid or not, with or without
\* a tag and a digest
Refs ==
  { << n >> \o t \o d :
      n \in RepoNames \cup { "NGINX" },
      t \in { << >> } \cup { << ":" >> \o tag : tag \in Tags },
      d \in { << >> } \cup { << "@", dg >> : dg \in RefDigests } }

InitSuffix ==
  /\ opt \in [pause : { FALSE }, nWith : { 0 }, maxTimes : { 1 }, TargetRef : Refs]
  /\ nested = 0
  /\ baseAnno = << >>
  /\ external = FALSE
  /\ baseLayers = BaseManifestLayers(baseAnno)
  /\ registry = << >>
  /\ registryLayers = << >>
  /\ succCommits = 0
  /\ FreshCommit
  /\ AuxIdle

\* AppendNydusSuffix applied to the target reference a commit has computed
AppendAgainStep ==
  /\ targetRef # << >>
  /\ ~again.done
  /\ LET r == AppendNydusSuffix(targetRef)
     IN again' = [done |-> TRUE, ref |-> r.ref, err |-> r.err]
  /\ UNCHANGED << commitVars, hasSuffix, mountAux, pushAux, laterAux >>

\* Manager.Inspect of a container that runs the image a commit has targeted:
\* distribution.HasNydusSuffix(image)
HasSuffixStep ==
  /\ targetRef # << >>
  /\ ~hasSuffix.done
  /\ LET r == HasNydusSuffix(targetRef)
     IN hasSuffix' = [done |-> TRUE, has |-> r.has, err |-> r.err]
  /\ UNCHANGED << commitVars, again, mountAux, pushAux, laterAux >>

NextSuffix ==
  \/ AppendSuffixStep
  \/ InspectStep
  \/ AppendAgainStep
  \/ HasSuffixStep

SpecSuffix == InitSuffix /\ [][NextSuffix]_vars

\* -------------------------------------------------- prepareMounts on its own
InitMounts ==
  /\ opt = [pause |-> FALSE, nWith |-> 0, maxTimes |-> 1, TargetRef |-> << "nginx", ":", "v" >>]
  /\ nested = 0
  /\ baseAnno = << >>
  /\ external = FALSE
  /\ baseLayers = BaseManifestLayers(baseAnno)
  /\ registry = << >>
  /\ registryLayers = << >>
  /\ succCommits = 0
  /\ FreshCommit
  /\ RefIdle
  /\ PushIdle
  /\ LaterIdle
  /\ containerMounts \in SeqsUpTo(ContainerMounts, MaxContainerMounts)
  /\ targetPaths \in SeqsUpTo(TargetPaths, MaxTargetPaths)
  /\ prep = PrepIdle

\* one iteration of "for _, targetPath := range targetPaths"
PrepareMountsIter ==
  /\ prep.pc = "loop"
  /\ prep.i <= Len(targetPaths)
  /\ LET r == PrepareMount(containerMounts, targetPaths[prep.i])
     IN IF r.err # NoErr
        THEN prep' = [prep EXCEPT !.pc = "returned", !.mounts = NoMounts, !.err = r.err]
        ELSE prep' = [prep EXCEPT !.i = @ + 1, !.targetMounts = Append(@, r.mount)]
  /\ UNCHANGED << commitVars, refAux, containerMounts, targetPaths, pushAux, laterAux >>

\* return targetMounts, nil
PrepareMountsReturn ==
  /\ prep.pc = "loop"
  /\ prep.i > Len(targetPaths)
  /\ prep' = [prep EXCEPT !.pc = "returned",
                          !.mounts = [isNil |-> FALSE, list |-> prep.targetMounts]]
  /\ UNCHANGED << commitVars, refAux, containerMounts, targetPaths, pushAux, laterAux >>

NextMounts ==
  \/ PrepareMountsIter
  \/ PrepareMountsReturn

SpecMounts == InitMounts /\ [][NextMounts]_vars

\* ------------------------------------ Registry.Push and the push of the config
InitPush ==
  /\ opt = [pause |-> FALSE, nWith |-> 0, maxTimes |-> 1, TargetRef |-> << "nginx", ":", "v" >>]
  /\ nested = 0
  /\ baseAnno = << >>
  /\ external = FALSE
  /\ baseLayers = BaseManifestLayers(baseAnno)
  /\ registry = << >>
  /\ registryLayers = << >>
  /\ succCommits = 0
  /\ FreshCommit
  /\ RefIdle
  /\ MountsIdle
  /\ LaterIdle
  /\ withRetry = RetryIdle
  /\ regRemote = NewRemote
  /\ cfgPush = [ConfigIdle EXCEPT !.pc = "first"]

\* Registry.Push: remote.WithRetry(func() error { return r.push(...) })
RegistryPush ==
  /\ withRetry.pc \in { "idle", "returned" }
  /\ withRetry.n < MaxPushes
  /\ withRetry' = RetryEntry(withRetry.n + 1)
  /\ regRemote' = [regRemote EXCEPT !.log = << >>]
  /\ UNCHANGED << commitVars, refAux, mountAux, cfgPush, laterAux >>

\* one turn of the loop of WithRetry, up to the call of op
WithRetryIter ==
  /\ withRetry.pc = "loop"
  /\ IF withRetry.attempts = 0
     THEN /\ withRetry' = [withRetry EXCEPT !.pc = "returned", !.ret = withRetry.err]
          /\ regRemote' = regRemote
     ELSE IF withRetry.err # NoErr /\ RetryWithHTTP(withRetry.err)
     THEN /\ withRetry' = [withRetry EXCEPT !.pc = "returned", !.attempts = @ - 1,
                                            !.ret = withRetry.err]
          /\ regRemote' = regRemote
     ELSE /\ withRetry' = [withRetry EXCEPT !.pc = "op", !.attempts = @ - 1]
          /\ regRemote' = [regRemote EXCEPT !.log = << >>]
  /\ UNCHANGED << commitVars, refAux, mountAux, cfgPush, laterAux >>

\* "if err = op(); err == nil { break }" of WithRetry, op returning e
OpReturns(e) ==
  withRetry' = [withRetry EXCEPT !.pc = IF e = NoErr THEN "returned" ELSE "loop",
                                 !.err = e,
                                 !.ret = IF e = NoErr THEN NoErr ELSE @,
                                 !.outs = Append(@, e)]

\* Registry.push: the first r.remote.Push
RegistryPushFirst ==
  /\ withRetry.pc = "op"
  /\ regRemote.log = << >>
  /\ \E e \in PushOutcomes :
       LET tried == [regRemote EXCEPT !.log = << Attempt(regRemote, e) >>]
       IN IF e = NoErr
          THEN /\ regRemote' = tried
               /\ OpReturns(NoErr)
          ELSE IF RetryWithHTTP(e)
          THEN /\ regRemote' = MaybeWithHTTP(tried, e)
               /\ withRetry' = withRetry
          ELSE /\ regRemote' = tried
               /\ OpReturns(Wrap(e, "push blob"))
  /\ UNCHANGED << commitVars, refAux, mountAux, cfgPush, laterAux >>

\* Registry.push: the second r.remote.Push, after MaybeWithHTTP
RegistryPushSecond ==
  /\ withRetry.pc = "op"
  /\ Len(regRemote.log) = 1
  /\ \E e \in PushOutcomes :
       /\ regRemote' = [regRemote EXCEPT !.log = Append(@, Attempt(regRemote, e))]
       /\ OpReturns(Wrap(e, "push blob"))
  /\ UNCHANGED << commitVars, refAux, mountAux, cfgPush, laterAux >>

\* pushManifest: remote.New and the first remoter.Push of the config
ConfigPushFirst ==
  /\ cfgPush.pc = "first"
  /\ \E e \in PushOutcomes :
       LET tried == [cfgPush.remote EXCEPT !.log = << Attempt(cfgPush.remote, e) >>]
       IN IF e = NoErr
          THEN cfgPush' = [pc |-> "returned", remote |-> tried, ret |-> NoErr]
          ELSE IF RetryWithHTTP(e)
          THEN cfgPush' = [pc |-> "second", remote |-> MaybeWithHTTP(tried, e), ret |-> NoErr]
          ELSE cfgPush' = [pc |-> "returned", remote |-> tried,
                           ret |-> Wrap(e, "push image config")]
  /\ UNCHANGED << commitVars, refAux, mountAux, withRetry, regRemote, laterAux >>

\* pushManifest: the second remoter.Push of the config, after MaybeWithHTTP
ConfigPushSecond ==
  /\ cfgPush.pc = "second"
  /\ \E e \in PushOutcomes :
       cfgPush' = [pc |-> "returned",
                   remote |-> [cfgPush.remote EXCEPT !.log = Append(@, Attempt(cfgPush.remote, e))],
                   ret |-> Wrap(e, "push image config")]
  /\ UNCHANGED << commitVars, refAux, mountAux, withRetry, regRemote, laterAux >>

NextPush ==
  \/ RegistryPush
  \/ WithRetryIter
  \/ RegistryPushFirst
  \/ RegistryPushSecond
  \/ ConfigPushFirst
  \/ ConfigPushSecond

SpecPush == InitPush /\ [][NextPush]_vars

\* ---------------------------------------------- splitFileByPartSize on its own
InitSplit ==
  /\ opt = [pause |-> FALSE, nWith |-> 0, maxTimes |-> 1, TargetRef |-> << "nginx", ":", "v" >>]
  /\ nested = 0
  /\ baseAnno = << >>
  /\ external = TRUE
  /\ baseLayers = BaseManifestLayers(baseAnno)
  /\ registry = << >>
  /\ registryLayers = << >>
  /\ succCommits = 0
  /\ FreshCommit
  /\ RefIdle
  /\ MountsIdle
  /\ PushIdle
  /\ \E b \in SmallSizes \cup LimitSizes \cup RejectedSizes, c \in -1 .. MaxChunkSize :
       split = [SplitIdle EXCEPT !.blobSize = b, !.chunkSize = c]
  /\ ossPush = OSSIdle(FALSE, 0, 1)
  /\ BackendIdle
  /\ FileIdle

SplitStep ==
  /\ ~split.done
  /\ LET r == splitFileByPartSize(split.blobSize, split.chunkSize)
     IN split' = [split EXCEPT !.done = TRUE, !.chunks = r.chunks, !.err = r.err]
  /\ UNCHANGED << commitVars, refAux, mountAux, pushAux, ossPush, beAux, fileAux >>

NextSplit == SplitStep

SpecSplit == InitSplit /\ [][NextSplit]_vars

\* ------------------------------------------------- OSSBackend.push on its own
InitOSS ==
  /\ opt = [pause |-> FALSE, nWith |-> 0, maxTimes |-> 1, TargetRef |-> << "nginx", ":", "v" >>]
  /\ nested = 0
  /\ baseAnno = << >>
  /\ external = TRUE
  /\ baseLayers = BaseManifestLayers(baseAnno)
  /\ registry = << >>
  /\ registryLayers = << >>
  /\ succCommits = 0
  /\ FreshCommit
  /\ RefIdle
  /\ MountsIdle
  /\ PushIdle
  /\ split = SplitIdle
  /\ \E f \in BOOLEAN, b \in SmallSizes \cup RejectedSizes, c \in 1 .. MaxChunkSize :
       ossPush = OSSIdle(f, b, c)
  /\ BackendIdle
  /\ FileIdle

\* push returns e
OSSReturn(e) == ossPush' = [ossPush EXCEPT !.pc = "returned", !.ret = e]

\* a push that goes on to upload whatever the existence check answers
OSSExistStep_IgnoresExisting ==
  /\ ossPush.pc = "exist"
  /\ \/ OSSReturn(Wrap(E("oss"), "check object existence"))
     \/ \E exist \in BOOLEAN : ossPush' = [ossPush EXCEPT !.pc = "split", !.exist = exist]
  /\ UNCHANGED << commitVars, refAux, mountAux, pushAux, split, beAux, fileAux >>

\* b.bucket.IsObjectExist(blobObjectKey)
OSSExistStep ==
  /\ ossPush.pc = "exist"
  /\ \/ OSSReturn(Wrap(E("oss"), "check object existence"))
     \/ \E exist \in BOOLEAN :
          IF exist /\ ~ossPush.forcePush
          THEN ossPush' = [ossPush EXCEPT !.pc = "returned", !.ret = NoErr, !.exist = exist]
          ELSE ossPush' = [ossPush EXCEPT !.pc = "split", !.exist = exist]
  /\ UNCHANGED << commitVars, refAux, mountAux, pushAux, split, beAux, fileAux >>

\* splitFileByPartSize(ra.Size(), remote.ChunkSize)
OSSSplitStep ==
  /\ ossPush.pc = "split"
  /\ LET r == splitFileByPartSize(ossPush.blobSize, ossPush.chunkSize)
     IN IF r.err # NoErr
        THEN OSSReturn(Wrap(r.err, "split blob by part num"))
        ELSE ossPush' = [ossPush EXCEPT !.pc = "initiate", !.chunks = r.chunks]
  /\ UNCHANGED << commitVars, refAux, mountAux, pushAux, split, beAux, fileAux >>

\* b.bucket.InitiateMultipartUpload(blobObjectKey) and the g.Go of every chunk
OSSInitiateStep ==
  /\ ossPush.pc = "initiate"
  /\ \/ OSSReturn(Wrap(E("oss"), "initiate multipart upload"))
     \/ ossPush' = [ossPush EXCEPT !.pc = "parts", !.imur = "open", !.initiated = @ + 1,
                                   !.part = [i \in 1 .. Len(ossPush.chunks) |-> PartIdle]]
  /\ UNCHANGED << commitVars, refAux, mountAux, pushAux, split, beAux, fileAux >>

\* a part upload that hands its part to partsChan in every turn, also in a
\* turn whose UploadPart failed
OSSPartTurn_SendsAlways(i) ==
  /\ ossPush.pc = "parts"
  /\ ossPush.part[i].pc = "run"
  /\ LET p == ossPush.part[i]
         sent == [ossPush EXCEPT !.partsChan = Append(@, ossPush.chunks[i].Number)]
         fails(e) == [ossPush EXCEPT !.part[i] = [p EXCEPT !.pc = "done", !.attempts = @ - 1],
                                     !.gErr = IF @ = NoErr THEN e ELSE @]
     IN IF p.err # NoErr /\ RetryWithHTTP(p.err)
        THEN ossPush' = fails(p.err)
        ELSE \E e \in BucketOutcomes :
               IF e = NoErr
               THEN ossPush' = [sent EXCEPT
                                  !.part[i] = [pc |-> "done", attempts |-> p.attempts - 1,
                                               err |-> NoErr, calls |-> p.calls + 1]]
               ELSE IF p.attempts = 1
               THEN ossPush' = [fails(Wrap(e, "upload part")) EXCEPT
                                  !.part[i].err = Wrap(e, "upload part"),
                                  !.part[i].calls = p.calls + 1]
               ELSE ossPush' = [sent EXCEPT
                                  !.part[i] = [pc |-> "run", attempts |-> p.attempts - 1,
                                               err |-> Wrap(e, "upload part"),
                                               calls |-> p.calls + 1]]
  /\ UNCHANGED << commitVars, refAux, mountAux, pushAux, split, beAux, fileAux >>

\* one turn of the WithRetry of part i: the test of the error of the turn
\* before, UploadPart, and the send on partsChan
OSSPartTurn(i) ==
  /\ ossPush.pc = "parts"
  /\ ossPush.part[i].pc = "run"
  /\ LET p == ossPush.part[i]
         fails(e) == [ossPush EXCEPT !.part[i] = [p EXCEPT !.pc = "done", !.attempts = @ - 1],
                                     !.gErr = IF @ = NoErr THEN e ELSE @]
     IN IF p.err # NoErr /\ RetryWithHTTP(p.err)
        THEN ossPush' = fails(p.err)
        ELSE \E e \in BucketOutcomes :
               IF e = NoErr
               THEN ossPush' = [ossPush EXCEPT
                                  !.part[i] = [pc |-> "done", attempts |-> p.attempts - 1,
                                               err |-> NoErr, calls |-> p.calls + 1],
                                  !.partsChan = Append(@, ossPush.chunks[i].Number)]
               ELSE IF p.attempts = 1
               THEN ossPush' = [fails(Wrap(e, "upload part")) EXCEPT
                                  !.part[i].err = Wrap(e, "upload part"),
                                  !.part[i].calls = p.calls + 1]
               ELSE ossPush' = [ossPush EXCEPT
                                  !.part[i] = [pc |-> "run", attempts |-> p.attempts - 1,
                                               err |-> Wrap(e, "upload part"),
                                               calls |-> p.calls + 1]]
  /\ UNCHANGED << commitVars, refAux, mountAux, pushAux, split, beAux, fileAux >>

\* g.Wait() and, on an error, AbortMultipartUpload, whose own error is dropped
OSSWaitStep ==
  /\ ossPush.pc = "parts"
  /\ \A i \in 1 .. Len(ossPush.part) : ossPush.part[i].pc = "done"
  /\ IF ossPush.gErr # NoErr
     THEN \E ok \in BOOLEAN :
            ossPush' = [ossPush EXCEPT !.pc = "returned",
                                       !.aborted = @ + 1,
                                       !.imur = IF ok THEN "aborted" ELSE @,
                                       !.ret = Wrap(ossPush.gErr, "upload parts")]
     ELSE ossPush' = [ossPush EXCEPT !.pc = "complete"]
  /\ UNCHANGED << commitVars, refAux, mountAux, pushAux, split, beAux, fileAux >>

\* b.bucket.CompleteMultipartUpload(imur, parts)
OSSCompleteStep ==
  /\ ossPush.pc = "complete"
  /\ \/ ossPush' = [ossPush EXCEPT !.pc = "returned", !.completed = @ + 1,
                                   !.ret = Wrap(E("oss"), "complete multipart upload")]
     \/ ossPush' = [ossPush EXCEPT !.pc = "returned", !.completed = @ + 1,
                                   !.imur = "completed", !.ret = NoErr]
  /\ UNCHANGED << commitVars, refAux, mountAux, pushAux, split, beAux, fileAux >>

NextOSS ==
  \/ OSSExistStep
  \/ OSSSplitStep
  \/ OSSInitiateStep
  \/ \E i \in 1 .. (MaxBlobSize + 1) : i <= Len(ossPush.part) /\ OSSPartTurn(i)
  \/ OSSWaitStep
  \/ OSSCompleteStep

SpecOSS == InitOSS /\ [][NextOSS]_vars

\* ----------------------------------- concurrent pushBlob calls on their own
InitBackend ==
  /\ opt = [pause |-> FALSE, nWith |-> 0, maxTimes |-> 1, TargetRef |-> << "nginx", ":", "v" >>]
  /\ nested = 0
  /\ baseAnno = << >>
  /\ external \in BOOLEAN
  /\ baseLayers = BaseManifestLayers(baseAnno)
  /\ registry = << >>
  /\ registryLayers = << >>
  /\ succCommits = 0
  /\ FreshCommit
  /\ RefIdle
  /\ MountsIdle
  /\ PushIdle
  /\ split = SplitIdle
  /\ ossPush = OSSIdle(FALSE, 0, 1)
  /\ wfBe = NoBackend
  /\ caller = [c \in Callers |-> CallerIdle]
  /\ FileIdle

\* wf.beMutex.Lock()
BackendLock(c) ==
  /\ caller[c].pc = "call"
  /\ wfBe.holder = 0
  /\ wfBe' = [wfBe EXCEPT !.holder = c]
  /\ caller' = [caller EXCEPT ![c].pc = "locked"]
  /\ UNCHANGED << commitVars, refAux, mountAux, pushAux, ossAux, fileAux >>

\* the body of wf.backend under the mutex, and the deferred Unlock
BackendBody(c) ==
  /\ caller[c].pc = "locked"
  /\ IF wfBe.val # NilBackend
     THEN /\ wfBe' = [wfBe EXCEPT !.holder = 0]
          /\ caller' = [caller EXCEPT ![c] = [pc |-> "got", be |-> wfBe.val, err |-> NoErr]]
     ELSE \E ok \in BOOLEAN :
            IF external
            THEN IF ok
                 THEN /\ wfBe' = [wfBe EXCEPT !.holder = 0, !.val = "oss", !.built = @ + 1]
                      /\ caller' = [caller EXCEPT ![c] = [pc |-> "got", be |-> "oss", err |-> NoErr]]
                 ELSE /\ wfBe' = [wfBe EXCEPT !.holder = 0, !.val = NilOSSBackend, !.failed = @ + 1]
                      /\ caller' = [caller EXCEPT ![c] =
                                      [pc |-> "returned", be |-> NilBackend,
                                       err |-> Wrap(E("oss"), "new oss backend")]]
            ELSE IF ok
                 THEN /\ wfBe' = [wfBe EXCEPT !.holder = 0, !.val = "registry", !.built = @ + 1]
                      /\ caller' = [caller EXCEPT ![c] = [pc |-> "got", be |-> "registry", err |-> NoErr]]
                 ELSE /\ wfBe' = [wfBe EXCEPT !.holder = 0, !.failed = @ + 1]
                      /\ caller' = [caller EXCEPT ![c] =
                                      [pc |-> "returned", be |-> NilBackend,
                                       err |-> Wrap(E("remote"), "create remote")]]
  /\ UNCHANGED << commitVars, refAux, mountAux, pushAux, ossAux, fileAux >>

\* backend.Push(ctx, blobRa, blobDesc): the call enters the backend; on the
\* nil *OSSBackend the read of b.objectPrefix panics
BlobPushStart(c) ==
  /\ caller[c].pc = "got"
  /\ caller' = [caller EXCEPT ![c].pc =
                  IF caller[c].be = NilOSSBackend THEN "panicked" ELSE "pushing"]
  /\ UNCHANGED << wfBe, commitVars, refAux, mountAux, pushAux, ossAux, fileAux >>

\* the Push call in flight returns; a registry client that was answered with
\* an error of the downgrade class is reconfigured by MaybeWithHTTP
BlobPushEnd(c) ==
  /\ caller[c].pc = "pushing"
  /\ \E e \in PushOutcomes :
       /\ caller' = [caller EXCEPT ![c] = [@ EXCEPT !.pc = "returned", !.err = e]]
       /\ IF caller[c].be = "registry" /\ RetryWithHTTP(e)
          THEN wfBe' = [wfBe EXCEPT
                          !.withHTTP = TRUE,
                          !.switchedUnder =
                             @ \/ \E d \in Callers \ { c } : caller[d].pc = "pushing"]
          ELSE wfBe' = wfBe
  /\ UNCHANGED << commitVars, refAux, mountAux, pushAux, ossAux, fileAux >>

NextBackend ==
  \E c \in Callers :
    \/ BackendLock(c)
    \/ BackendBody(c)
    \/ BlobPushStart(c)
    \/ BlobPushEnd(c)

SpecBackend == InitBackend /\ [][NextBackend]_vars

\* ------------------------------------------------- a blob file and its digest
\* one task of a wave on its own: withRetry around commitUpperByDiff or
\* commitMountByNSEnter, then pushBlob
InitBlob ==
  /\ opt = [pause |-> FALSE, nWith |-> 0, maxTimes |-> 1, TargetRef |-> << "nginx", ":", "v" >>]
  /\ nested = 0
  /\ baseAnno = << >>
  /\ external = FALSE
  /\ baseLayers = BaseManifestLayers(baseAnno)
  /\ registry = << >>
  /\ registryLayers = << >>
  /\ succCommits = 0
  /\ FreshCommit
  /\ RefIdle
  /\ MountsIdle
  /\ PushIdle
  /\ split = SplitIdle
  /\ ossPush = OSSIdle(FALSE, 0, 1)
  /\ BackendIdle
  /\ blobFile = BlobStart
  /\ mgr = MgrIdle
  /\ insp = InspIdle

\* an os.Create that opens the file of an earlier attempt for appending
osCreate_Appending(old) == old

\* os.Create(blobPath): O_RDWR|O_CREATE|O_TRUNC, the content of the file
osCreate(old) == << >>

\* the attempt returns e without a digest; blob.Close() runs deferred
AttemptFails(b, e) ==
  [b EXCEPT !.pc = "ret", !.digest = NoDigest, !.err = e, !.left = b.file]

\* withRetry's total--, the call of the closure, os.Create and
\* digest.SHA256.Digester()
BlobCreate ==
  /\ blobFile.pc = "create"
  /\ LET b == [blobFile EXCEPT !.total = @ - 1]
     IN \E ok \in BOOLEAN :
          blobFile' = IF ok
                      THEN [b EXCEPT !.pc = "pack", !.file = osCreate(b.file),
                                     !.hashed = << >>]
                      ELSE AttemptFails(b, Wrap(E("create"), "create upper blob file"))
  /\ UNCHANGED << commitVars, refAux, mountAux, pushAux, ossAux, beAux, mgr, insp >>

\* one Write of the packer to io.MultiWriter(blob, digester.Hash(), &counter):
\* the writers are written in turn and the first error ends the Write, so a
\* failed or short write to the blob file leaves the digester without the
\* chunk, and the packer fails
BlobWrite ==
  /\ blobFile.pc = "pack"
  /\ \E p \in SeqsUpTo(Bytes, MaxBlobBytes) \ { << >> } :
       /\ Len(blobFile.hashed) + Len(p) <= MaxBlobBytes
       /\ \/ blobFile' = [blobFile EXCEPT !.file = @ \o p, !.hashed = @ \o p]
          \/ \E n \in 0 .. (Len(p) - 1) :
               blobFile' = AttemptFails([blobFile EXCEPT !.file = @ \o SubSeq(p, 1, n)],
                                        Wrap(E("write"), "pack to blob"))
  /\ UNCHANGED << commitVars, refAux, mountAux, pushAux, ossAux, beAux, mgr, insp >>

\* diff.Diff or copyFromContainer fails: the attempt returns, tarWc is left open
BlobExtractFails ==
  /\ blobFile.pc = "pack"
  /\ blobFile' = AttemptFails(blobFile, Wrap(E("extract"), "make diff"))
  /\ UNCHANGED << commitVars, refAux, mountAux, pushAux, ossAux, beAux, mgr, insp >>

\* tarWc.Close() and digester.Digest()
BlobClose ==
  /\ blobFile.pc = "pack"
  /\ \E ok \in BOOLEAN :
       blobFile' = IF ok
                   THEN [blobFile EXCEPT !.pc = "ret", !.digest = Hash(blobFile.hashed),
                                         !.err = NoErr]
                   ELSE AttemptFails(blobFile, Wrap(E("pack"), "pack to blob"))
  /\ UNCHANGED << commitVars, refAux, mountAux, pushAux, ossAux, beAux, mgr, insp >>

\* withRetry's test of the error the closure returned
BlobRet ==
  /\ blobFile.pc = "ret"
  /\ LET d == RetryDecision(blobFile.err, blobFile.total)
     IN blobFile' = CASE d = "ok" -> [blobFile EXCEPT !.pc = "push"]
                      [] d = "retry" -> [blobFile EXCEPT !.pc = "create"]
                      [] d = "fail" -> [blobFile EXCEPT !.pc = "failed", !.ret = blobFile.err]
  /\ UNCHANGED << commitVars, refAux, mountAux, pushAux, ossAux, beAux, mgr, insp >>

\* pushBlob: local.OpenReader and the descriptor, its Size from blobRa.Size()
BlobDescribe ==
  /\ blobFile.pc = "push"
  /\ blobFile' = [blobFile EXCEPT !.pc = "described",
                                  !.desc = [Digest |-> blobFile.digest,
                                            Size |-> Len(blobFile.file)]]
  /\ UNCHANGED << commitVars, refAux, mountAux, pushAux, ossAux, beAux, mgr, insp >>

NextBlob ==
  \/ BlobCreate
  \/ BlobWrite
  \/ BlobExtractFails
  \/ BlobClose
  \/ BlobRet
  \/ BlobDescribe

SpecBlob == InitBlob /\ [][NextBlob]_vars

\* ------------------------------------------------- the container manager
\* the container addresses of the model: up to MaxAddrLen pieces
Addresses == SeqsUpTo(AddrTokens, MaxAddrLen)

InitManager ==
  /\ opt = [pause |-> FALSE, nWith |-> 0, maxTimes |-> 1, TargetRef |-> << "nginx", ":", "v" >>]
  /\ nested = 0
  /\ baseAnno = << >>
  /\ external = FALSE
  /\ baseLayers = BaseManifestLayers(baseAnno)
  /\ registry = << >>
  /\ registryLayers = << >>
  /\ succCommits = 0
  /\ FreshCommit
  /\ RefIdle
  /\ MountsIdle
  /\ PushIdle
  /\ split = SplitIdle
  /\ ossPush = OSSIdle(FALSE, 0, 1)
  /\ BackendIdle
  /\ blobFile = BlobIdle
  /\ \E a \in Addresses : mgr = [MgrIdle EXCEPT !.addr = a, !.pc = "call"]
  /\ insp = InspIdle

\* what a method of the manager can return: the error of createClient, or,
\* when it gave a client, the answer to the request req sent to the engine's
\* socket, a failed request wrapped by msg ("" for as it is)
CallOutcomes(op, req, msg) ==
  LET c == createClient(mgr.addr)
      m == [mgr EXCEPT !.op = op, !.pc = "returned"]
  IN IF c.err # NoErr
     THEN { [m EXCEPT !.ret = Wrap(c.err, "create client")] }
     ELSE { [m EXCEPT !.contacted = << [sock |-> c.client, req |-> req, id |-> c.id] >>,
                      !.ret = e] :
              e \in { NoErr, IF msg = "" THEN E("engine") ELSE Wrap(E("engine"), msg) } }

\* Manager.Inspect, up to the answer of the engine
ManagerInspect ==
  /\ mgr.pc = "call"
  /\ mgr' \in CallOutcomes("Inspect", "ContainerInspectWithRaw", "inspect container")
  /\ UNCHANGED << commitVars, refAux, mountAux, pushAux, ossAux, beAux, blobFile, insp >>

\* Manager.Pause
ManagerPause ==
  /\ mgr.pc = "call"
  /\ mgr' \in CallOutcomes("Pause", "ContainerPause", "")
  /\ UNCHANGED << commitVars, refAux, mountAux, pushAux, ossAux, beAux, blobFile, insp >>

\* Manager.UnPause
ManagerUnPause ==
  /\ mgr.pc = "call"
  /\ mgr' \in CallOutcomes("UnPause", "ContainerUnpause", "")
  /\ UNCHANGED << commitVars, refAux, mountAux, pushAux, ossAux, beAux, blobFile, insp >>

NextManager ==
  \/ ManagerInspect
  \/ ManagerPause
  \/ ManagerUnPause

SpecManager == InitManager /\ [][NextManager]_vars

\* ---------------------------------------------------------- Manager.Inspect
\* the image names a container's JSON can carry
InspectImages ==
  { << >>, << "NGINX" >>, << "nginx" >>, << "nginx", ":", "v" >>,
    << "nginx", ":", "v" >> \o NydusRefSuffix }

\* the VFS options mount.Lookup can report for an overlay with the lower
\* directories dirs
MountOptions(dirs) ==
  LET lower == << "lowerdir=" >> \o Joined(dirs, Colon)
  IN { lower,
       << "rw", Comma >> \o lower \o << Comma, "upperdir=/u", Comma, "workdir=/w" >>,
       << "rw", Comma, "relatime" >> }

InitInspect ==
  /\ opt = [pause |-> FALSE, nWith |-> 0, maxTimes |-> 1, TargetRef |-> << "nginx", ":", "v" >>]
  /\ nested = 0
  /\ baseAnno = << >>
  /\ external = FALSE
  /\ baseLayers = BaseManifestLayers(baseAnno)
  /\ registry = << >>
  /\ registryLayers = << >>
  /\ succCommits = 0
  /\ FreshCommit
  /\ RefIdle
  /\ MountsIdle
  /\ PushIdle
  /\ split = SplitIdle
  /\ ossPush = OSSIdle(FALSE, 0, 1)
  /\ BackendIdle
  /\ blobFile = BlobIdle
  /\ mgr = MgrIdle
  /\ \E e \in { EngineDocker, EnginePouch },
        d \in SeqsUpTo(LowerDirNames, MaxLowerDirs) \ { << >> },
        found \in BOOLEAN,
        l \in InspectImages \cup { Absent },
        c \in InspectImages :
       \E o \in MountOptions(d) :
         insp = [InspIdle EXCEPT !.pc = "call", !.engine = e, !.dirs = d,
                                 !.field = Joined(d, Colon),
                                 !.info = [found |-> found, VFSOptions |-> o],
                                 !.label = l, !.cfgImage = c]

\* Manager.Inspect once the engine has answered: the lower directories, the
\* image, the test of its suffix, the result
InspectCall ==
  /\ insp.pc = "call"
  /\ LET lower == InspectLowerDirs(insp.engine, insp.field, insp.info)
         image == InspectImage(insp.label, insp.cfgImage)
         has == HasNydusSuffix(image.image)
         e == IF lower.err # NoErr THEN lower.err
              ELSE IF image.err # NoErr THEN image.err
              ELSE IF has.err # NoErr THEN Wrap(has.err, "check nydus image name")
              ELSE IF ~has.has THEN E("invalid nydus image name")
              ELSE NoErr
     IN insp' = [insp EXCEPT !.pc = "returned",
                             !.err = e,
                             !.res = IF e # NoErr THEN NoInspect
                                     ELSE [LowerDirs |-> lower.val, Image |-> image.image]]
  /\ UNCHANGED << commitVars, refAux, mountAux, pushAux, ossAux, beAux, blobFile, mgr >>

NextInspect == InspectCall

SpecInspect == InitInspect /\ [][NextInspect]_vars

\* =================================================================== claims
\* the number of comma-separated entries of an annotation, counted on the
\* string itself: none for the empty string, else one more than its commas
CountEntries(anno) ==
  IF anno = << >> THEN 0
  ELSE 1 + Cardinality({ i \in 1 .. Len(anno) : anno[i] = Comma })

AllTasksIdle == \A t \in TaskIds : task[t].pc = "idle"
PublicationStarted == mergeCalls > 0 \/ pubLog # << >>

\* C1: when pause-container is set and the pause call succeeded, exactly one
\* unpause request has been issued when Commit returns, whether all wave
\* tasks succeeded, a wave-1 task failed or a wave-2 task failed; an unpause
\* is never issued twice and never without a successful pause.
C1_UnpauseExactlyOnce ==
  /\ unpauseCalls <= 1
  /\ unpauseCalls = 1 => pauseOK
  /\ (pauseOK /\ pc = "returned") => unpauseCalls = 1

C1_Witness ==
  /\ pauseOK
  /\ pc = "returned"
  /\ wave = 2
  /\ firstFail > opt.nWith
  /\ unpauseCalls = 1

\* C2: when the pause succeeded and a wave task failed, Commit returns the
\* error that task returned (wrapped, never the unpause error in its place),
\* also when the unpause call failed, and neither the merge nor a push of
\* config, bootstrap or manifest has happened.
C2_OriginalErrorReturned ==
  (pauseOK /\ pc = "returned" /\ firstFail # -1) =>
     /\ result = Wrap(task[firstFail].ret, "pause container to commit")
     /\ result.kind \in {"pack", "push"}
     /\ mergeCalls = 0
     /\ pubLog = << >>

C2_Witness ==
  /\ pauseOK
  /\ pc = "returned"
  /\ firstFail # -1
  /\ task[firstFail].ret.kind = "pack"
  /\ task[firstFail].ret.origin = firstFail
  /\ unpauseCalls = 1
  /\ paused

\* C3: if the engine's pause call fails, Commit returns an error, no wave
\* task was started (no extraction, no packer, no blob push) and no unpause
\* request is issued.
C3_PauseFailureAborts ==
  (pauseCalls > 0 /\ ~pauseOK) =>
     /\ pc = "returned"
     /\ result.kind = "pause"
     /\ wave = 0
     /\ AllTasksIdle
     /\ upperBlob = NoBlob
     /\ mountBlobs = << >>
     /\ paths = << >>
     /\ unpauseCalls = 0
     /\ ~PublicationStarted

C3_Witness ==
  /\ pauseCalls = 1
  /\ ~pauseOK
  /\ pc = "returned"
  /\ opt.nWith > 0

\* C4: a wave-2 task is started only when every wave-1 task has finished
\* successfully; when a wave-1 task failed no wave-2 task is started.
C4_Wave2AfterWave1 ==
  /\ \A t \in TaskIds :
       (t > opt.nWith /\ task[t].pc # "idle") =>
          \A u \in Wave1Ids : task[u].pc = "done"
  /\ (\E u \in Wave1Ids : task[u].pc = "failed") =>
          /\ wave # 2
          /\ \A t \in TaskIds : t > opt.nWith => task[t].pc = "idle"

C4_Witness ==
  /\ opt.nWith > 0
  /\ \E t \in TaskIds : t > opt.nWith /\ task[t].pc = "ret"

\* C5: when the merge starts, every task of wave 1 and wave 2 has closed its
\* packer successfully in its last attempt and has pushed its blob, and the
\* upper blob and every entry of the mount-blobs list hold a recorded digest.
C5_MergeAfterAllBlobs ==
  (pc = "merge" \/ mergeCalls > 0) =>
     /\ \A t \in Wave1Ids \cup Wave2Ids :
          task[t].pc = "done" /\ task[t].digest = DigestOf(t)
     /\ upperBlob # NoBlob
     /\ upperBlob.Digest = DigestOf(0)
     /\ Len(mountBlobs) = opt.nWith + Len(paths)
     /\ \A i \in 1 .. Len(mountBlobs) :
          mountBlobs[i] # NoBlob /\ mountBlobs[i].Digest \notin {NoDigest, ""}
     /\ \A i \in 1 .. Len(mergeLayers) : mergeLayers[i] \notin {NoDigest, ""}

C5_Witness ==
  /\ mergeCalls = 1
  /\ opt.nWith > 0
  /\ Len(paths) > 0
  /\ Len(mountBlobs) = opt.nWith + Len(paths)

PushRank(what) ==
  CASE what = "config" -> 1
    [] what = "bootstrap" -> 2
    [] what = "manifest" -> 3

\* C6: pushManifest pushes in the order config, bootstrap layer, manifest;
\* the manifest push is attempted only after a config push and the bootstrap
\* push succeeded, it is attempted once and nothing is pushed after it, and
\* the publication starts only when every blob push of the waves is over.
C6_ManifestPushedLast ==
  /\ \A i, j \in 1 .. Len(pubLog) :
       i < j => PushRank(pubLog[i].what) <= PushRank(pubLog[j].what)
  /\ Cardinality({ i \in 1 .. Len(pubLog) : pubLog[i].what = "bootstrap" }) <= 1
  /\ \A i \in 1 .. Len(pubLog) :
       pubLog[i].what = "manifest" =>
          /\ i = Len(pubLog)
          /\ \E j \in 1 .. i - 1 : pubLog[j] = Pushed("config", TRUE)
          /\ \E j \in 1 .. i - 1 : pubLog[j] = Pushed("bootstrap", TRUE)
          /\ pc = "returned"
  /\ \A i \in 1 .. Len(pubLog) :
       pubLog[i].what = "bootstrap" =>
          \E j \in 1 .. i - 1 : pubLog[j] = Pushed("config", TRUE)
  /\ pubLog # << >> => \A t \in TaskIds : task[t].pc \in {"idle", "done"}

C6_Witness ==
  /\ Len(pubLog) = 4
  /\ pubLog[4] = Pushed("manifest", TRUE)
  /\ opt.nWith > 0

\* C7: when a task of a wave has failed, Commit returns only after every
\* task of that wave has finished (siblings run to their end), it returns the
\* error of the first task that failed, and neither the merge nor a push of
\* config, bootstrap or manifest is performed.
C7_SiblingsAwaited ==
  /\ (firstFail # -1 /\ pc \in {"afterCommit", "returned"}) =>
        /\ \A t \in WaveIds(wave) : Finished(t)
        /\ commitErr = task[firstFail].ret
        /\ pc = "returned" => Cause(result) = Cause(task[firstFail].ret)
  /\ firstFail # -1 => ~PublicationStarted /\ pc \notin {"merge", "pushConfig", "pushBootstrap", "pushManifest"}

C7_Witness ==
  /\ pc = "returned"
  /\ doneAfterFail
  /\ Cardinality({ t \in TaskIds : task[t].pc = "failed" }) = 1

\* C8: if the base annotation has N comma-separated entries (0 when empty or
\* absent) and N >= maximum-times, Commit returns the maximum-commits error
\* after one pull of the base bootstrap, with no pause request, no wave task
\* and no push.
C8_MaximumGate ==
  CountEntries(baseAnno) >= opt.maxTimes =>
     /\ pullCalls <= 1
     /\ pauseCalls = 0
     /\ wave = 0
     /\ AllTasksIdle
     /\ ~PublicationStarted
     /\ pc \in {"start", "inspect", "pull", "gate", "returned"}
     /\ pc = "returned" =>
          result.kind \in {"invalid reference", "unsupported digested image reference",
                           "inspect", "pull", "reached maximum committed times"}
     /\ (pc = "returned" /\ pullCalls = 1 /\ result.kind # "pull") =>
          result.kind = "reached maximum committed times"
     /\ (pc = "returned" /\ result.kind = "reached maximum committed times") =>
          pullCalls = 1

C8_Witness ==
  /\ pc = "returned"
  /\ result.kind = "reached maximum committed times"
  /\ CountEntries(baseAnno) = 2
  /\ opt.maxTimes = 2

\* C9: after a successful commit on a base whose annotation has C entries,
\* with M mount blobs, the new bootstrap layer's annotation has C + 1 + M
\* entries.
C9_CountExtendsBase ==
  (pc = "returned" /\ result = NoErr) =>
     CountEntries(registry) = CountEntries(baseAnno) + 1 + Len(mountBlobs)

\* C10: in a chain of commits, each on the image the previous one produced,
\* the count grows with every commit, so that no chain has more than
\* maximum-times successful commits.
C10_ChainBounded == succCommits <= opt.maxTimes

\* C11: with the external (object store) backend the pushed manifest lists
\* one layer, the bootstrap, and the pushed config one diff-id, the bootstrap
\* diff-id, although the upper and mount blobs were packed and pushed; the
\* bootstrap layer carries the blob-ids annotation iff the backend is external.
C11_ExternalManifest ==
  /\ (external /\ pushedDiffIDs # << >>) => pushedDiffIDs = << BootstrapDiffID >>
  /\ (pc = "returned" /\ result = NoErr) =>
       LET bootstrap == registryLayers[Len(registryLayers)]
       IN /\ bootstrap.MediaType = MediaTypeImageLayerGzip
          /\ bootstrap.Annotations["containerd.io/snapshot/nydus-bootstrap"] = "true"
          /\ (layerAnnotationNydusBlobIDs \in DOMAIN bootstrap.Annotations) <=> external
          /\ external =>
               /\ Len(registryLayers) = 1
               /\ Len(pushedDiffIDs) = 1
               /\ upperBlob.Digest = DigestOf(0)
               /\ Len(mountBlobs) = opt.nWith + Len(paths)
               /\ \A t \in Wave1Ids \cup Wave2Ids : task[t].pc = "done"

C11_Witness ==
  /\ pc = "returned"
  /\ result = NoErr
  /\ external
  /\ Len(mountBlobs) = 2
  /\ Len(registryLayers) = 1
  /\ layerAnnotationNydusBlobIDs \in DOMAIN registryLayers[1].Annotations

\* the number of nydus blob layers among the first j layers
BlobLayersUpTo(layers, j) ==
  Cardinality({ k \in 1 .. j : layers[k].MediaType = MediaTypeNydusBlob })

\* C12: with the registry backend the new manifest's layers are the base
\* image's blob layers in their base order, then the new mount blob
\* descriptors, then the upper blob descriptor, then the new bootstrap
\* descriptor; the config's diff-ids are the same digests with the bootstrap
\* diff-id last.
C12_RegistryManifest ==
  (pc = "returned" /\ result = NoErr /\ ~external) =>
     LET nBase == BlobLayersUpTo(baseLayers, Len(baseLayers))
         M == Len(mountBlobs)
         n == Len(registryLayers)
     IN /\ n = nBase + M + 2
        /\ \A i \in 1 .. nBase :
             \E j \in 1 .. Len(baseLayers) :
                /\ baseLayers[j].MediaType = MediaTypeNydusBlob
                /\ BlobLayersUpTo(baseLayers, j) = i
                /\ registryLayers[i] = baseLayers[j]
        /\ \A i \in 1 .. M :
             /\ registryLayers[nBase + i].Digest = mountBlobs[i].Digest
             /\ registryLayers[nBase + i].MediaType = MediaTypeNydusBlob
        /\ registryLayers[n - 1].Digest = upperBlob.Digest
        /\ registryLayers[n - 1].MediaType = MediaTypeNydusBlob
        /\ registryLayers[n].MediaType = MediaTypeImageLayerGzip
        /\ registryLayers[n].Annotations[layerAnnotationNydusCommitBlobs] = pushedAnno
        /\ Len(pushedDiffIDs) = n
        /\ \A i \in 1 .. n - 1 : pushedDiffIDs[i] = registryLayers[i].Digest
        /\ pushedDiffIDs[n] = BootstrapDiffID

C12_Witness ==
  /\ pc = "returned"
  /\ result = NoErr
  /\ ~external
  /\ Len(mountBlobs) = 2
  /\ Len(registryLayers) = 5
  /\ registryLayers[1].Digest = "sha256:lower"

\* the blob task t records
BlobOf(t) == [Name |-> BlobName(t), Digest |-> DigestOf(t)]

C14_UpperLast_AsStated ==
  mergeCalls > 0 =>
     /\ Len(mergeLayers) = Len(mountBlobs) + 1
     /\ mergeLayers[Len(mergeLayers)] = upperBlob.Digest
     /\ \A i \in 1 .. Len(mountBlobs) : mergeLayers[i] = mountBlobs[i].Digest

\* C14: the list of new blobs handed to the bootstrap merge has the upper
\* blob first, followed by the mount blobs in their insertion order (the
\* order they have among themselves in the manifest's layer list).
C14_UpperFirst ==
  mergeCalls > 0 =>
     /\ Len(mergeLayers) = Len(mountBlobs) + 1
     /\ mergeLayers[1] = upperBlob.Digest
     /\ \A i \in 1 .. Len(mountBlobs) : mergeLayers[1 + i] = mountBlobs[i].Digest

C14_Witness ==
  /\ mergeCalls = 1
  /\ Len(mountBlobs) = 2
  /\ mergeLayers = << DigestOf(0), mountBlobs[1].Digest, mountBlobs[2].Digest >>
  /\ mountBlobs[1].Digest # mountBlobs[2].Digest

\* C15: append-suffix is idempotent: for every reference x on which it
\* succeeds, append-suffix(append-suffix(x)) succeeds and equals
\* append-suffix(x), for references without a tag and references that carry
\* the suffix already as well.
C15_Idempotent ==
  again.done => (again.err = NoErr /\ again.ref = targetRef)

\* C16: for every valid non-digested reference x, has-suffix(append-suffix(x))
\* is true, so that the inspection's suffix test accepts a target a commit
\* has produced.
C16_HasSuffixAfterAppend ==
  hasSuffix.done => (hasSuffix.err = NoErr /\ hasSuffix.has)

\* a reference AppendNydusSuffix has to reject: pinned to a digest, or not a
\* reference at all
DigestPinned(ref) == \E i \in 1 .. Len(ref) : ref[i] = "@"
Rejected(ref) == DigestPinned(ref) \/ ParseDockerRef(ref).err # NoErr
\* the tag written in a reference that is accepted (<< >>: none)
WrittenTag(ref) == IF Len(ref) > 1 THEN SubSeq(ref, 3, Len(ref)) ELSE << >>

\* C17: AppendNydusSuffix fails on a digest-pinned and on an unparsable
\* reference, and Commit then returns that error, wrapped, without having
\* inspected the container, pulled the base, paused, packed or pushed; on a
\* tagged reference whose tag does not end with _nydus_v2 the target is the
\* (normalized) reference with _nydus_v2 appended to the tag, and on one
\* whose tag ends with it the target is the input, unchanged.
C17_AppendSuffixContract ==
  /\ Rejected(opt.TargetRef) =>
       /\ pc \in { "start", "returned" }
       /\ targetRef = << >>
       /\ pc = "returned" =>
            /\ result.kind \in { "invalid reference", "unsupported digested image reference" }
            /\ result.kind = "unsupported digested image reference"
                 <=> ParseDockerRef(opt.TargetRef).err = NoErr
            /\ Head(result.wrap) = "parse target image name"
       /\ pullCalls = 0
       /\ pauseCalls = 0
       /\ wave = 0
       /\ AllTasksIdle
       /\ ~PublicationStarted
  /\ (~Rejected(opt.TargetRef) /\ pc # "start" /\ WrittenTag(opt.TargetRef) # << >>) =>
       IF HasSuffix(WrittenTag(opt.TargetRef), NydusRefSuffix)
       THEN targetRef = opt.TargetRef
       ELSE targetRef = << NormalizedName(opt.TargetRef[1]), ":" >>
                          \o WrittenTag(opt.TargetRef) \o NydusRefSuffix

\* Commit has returned the error of a digest-pinned target reference
C17_Witness ==
  /\ DigestPinned(opt.TargetRef)
  /\ pc = "returned"
  /\ result.kind = "unsupported digested image reference"
  /\ result.wrap = << "parse target image name" >>

\* a tag that already carries the suffix has gone through unchanged, and one
\* that does not has got it
C17_SuffixedUnchanged ==
  /\ pc = "inspect"
  /\ HasSuffix(WrittenTag(opt.TargetRef), NydusRefSuffix)
  /\ targetRef = opt.TargetRef
C17_SuffixAppended ==
  /\ pc = "inspect"
  /\ opt.TargetRef = << "nginx", ":", "v" >>
  /\ targetRef = << "docker.io/library/nginx", ":", "v" >> \o NydusRefSuffix

\* d is path p itself or one of its ancestor directories
Under(p, d) ==
  /\ IsAbs(p) = IsAbs(d)
  /\ Len(Elements(d)) <= Len(Elements(p))
  /\ SubSeq(Elements(p), 1, Len(Elements(d))) = Elements(d)

\* the container mounts path p lies under, and the innermost of them
MountsOver(p) == { i \in 1 .. Len(containerMounts) : Under(p, containerMounts[i].Destination) }
MountOver(p) ==
  CHOOSE i \in MountsOver(p) :
    \A j \in MountsOver(p) :
      \/ Len(containerMounts[j].Destination) < Len(containerMounts[i].Destination)
      \/ (Len(containerMounts[j].Destination) = Len(containerMounts[i].Destination) /\ j <= i)

\* the bind mount C18 describes for include path p and container mount m
BindMountFor(p, m) ==
  [Type |-> "bind",
   Source |-> Join2(m.Source, Rel(m.Destination, p).path),
   Target |-> IF p # << >> /\ p[1] = "/" THEN Tail(p) ELSE p,
   Options |-> << "ro", "rbind" >>]

\* C18: prepareMounts returns one bind mount per include path, in the order
\* of the paths: for path p under the container mount (d, s) the source is
\* join(s, rel(d, p)), the target is p without its leading slash, the options
\* are [ro, rbind]; a path that is not absolute, or that lies under no
\* container mount, makes the call fail and return no list.
C18_PrepareMounts ==
  prep.pc = "returned" =>
    IF \A i \in 1 .. Len(targetPaths) : IsAbs(targetPaths[i]) /\ MountsOver(targetPaths[i]) # { }
    THEN /\ prep.err = NoErr
         /\ ~prep.mounts.isNil
         /\ Len(prep.mounts.list) = Len(targetPaths)
         /\ \A i \in 1 .. Len(targetPaths) :
              prep.mounts.list[i] =
                BindMountFor(targetPaths[i], containerMounts[MountOver(targetPaths[i])])
    ELSE /\ prep.err # NoErr
         /\ prep.mounts.isNil

\* the same with "under" read as findMount reads it: the destination is a
\* prefix of the characters of the path
C18_OnStringPrefix ==
  prep.pc = "returned" =>
    IF \A i \in 1 .. Len(targetPaths) :
         IsAbs(targetPaths[i]) /\ findMount(containerMounts, targetPaths[i]) # 0
    THEN /\ prep.err = NoErr
         /\ ~prep.mounts.isNil
         /\ Len(prep.mounts.list) = Len(targetPaths)
         /\ \A i \in 1 .. Len(targetPaths) :
              prep.mounts.list[i] =
                BindMountFor(targetPaths[i],
                             containerMounts[findMount(containerMounts, targetPaths[i])])
    ELSE /\ prep.err # NoErr
         /\ prep.mounts.isNil

\* the call of TestPrepareMounts and its expected result
C18_TestPrepareMounts ==
  /\ containerMounts = << [Source |-> << "/", "h", "/", "o" >>, Destination |-> << "/", "g", "/", "o" >>] >>
  /\ targetPaths = << << "/", "g", "/", "o", "/", "f" >>, << "/", "g", "/", "o", "/", "b" >> >>
  /\ prep.pc = "returned"
  /\ prep.err = NoErr
  /\ prep.mounts.list =
       << [Type |-> "bind", Source |-> << "/", "h", "/", "o", "/", "f" >>,
           Target |-> << "g", "/", "o", "/", "f" >>, Options |-> << "ro", "rbind" >>],
          [Type |-> "bind", Source |-> << "/", "h", "/", "o", "/", "b" >>,
           Target |-> << "g", "/", "o", "/", "b" >>, Options |-> << "ro", "rbind" >>] >>

\* an include path beside a container mount has been given a source outside
\* the mount's source directory
C18_SiblingPath ==
  /\ containerMounts = << [Source |-> << "/", "h", "/", "o" >>, Destination |-> << "/", "g", "/", "o" >>] >>
  /\ targetPaths = << << "/", "g", "/", "o", "2", "/", "f" >> >>
  /\ prep.pc = "returned"
  /\ prep.err = NoErr
  /\ prep.mounts.list[1].Source = << "/", "h", "/", "o", "2", "/", "f" >>

\* an error of the scheme-downgrade class, read off its message
DowngradeClass(e) ==
  e # NoErr /\ e.kind \in { "http response to https client", "connection refused" }

\* C19: WithRetry invokes op at least once and at most 3 times, never again
\* after an invocation that succeeded, never again after one that failed
\* with an error of the scheme-downgrade class, and it returns the result of
\* the last invocation.
C19_WithRetry ==
  /\ Len(withRetry.outs) <= 3
  /\ \A i \in 1 .. (Len(withRetry.outs) - 1) :
       withRetry.outs[i] # NoErr /\ ~DowngradeClass(withRetry.outs[i])
  /\ withRetry.pc = "returned" =>
       /\ Len(withRetry.outs) >= 1
       /\ withRetry.ret = withRetry.outs[Len(withRetry.outs)]
  /\ (withRetry.pc = "op" /\ withRetry.outs # << >>) =>
       /\ withRetry.outs[Len(withRetry.outs)] # NoErr
       /\ ~DowngradeClass(withRetry.outs[Len(withRetry.outs)])

\* WithRetry has returned after a second invocation of op that failed with
\* an error of the scheme-downgrade class
C19_Witness ==
  /\ withRetry.pc = "returned"
  /\ Len(withRetry.outs) = 2
  /\ DowngradeClass(withRetry.outs[2])
  /\ withRetry.ret = withRetry.outs[2]
  /\ withRetry.attempts = 0

\* WithRetry has returned the error of its third invocation of op
C19_ThreeFailures ==
  /\ withRetry.pc = "returned"
  /\ Len(withRetry.outs) = 3
  /\ withRetry.ret = withRetry.outs[3]
  /\ withRetry.ret.kind = "push"

\* what C20 says of one push (the attempts log of the client, whether the
\* push has returned, what it returned and under which message)
PushContract(remote, returned, ret, msg) ==
  LET log == remote.log
  IN /\ Len(log) <= 2
     /\ returned => Len(log) >= 1
     /\ Len(log) >= 1 =>
          /\ log[1].out = NoErr => (returned /\ Len(log) = 1 /\ ret = NoErr)
          /\ DowngradeClass(log[1].out) =>
               /\ remote.withHTTP
               /\ returned => Len(log) = 2
          /\ (log[1].out # NoErr /\ ~DowngradeClass(log[1].out)) =>
               /\ returned
               /\ Len(log) = 1
               /\ remote.withHTTP = log[1].plain
               /\ ret = Wrap(log[1].out, msg)
     /\ Len(log) = 2 =>
          /\ DowngradeClass(log[1].out)
          /\ log[2].plain
          /\ returned
          /\ ret = IF log[2].out = NoErr THEN NoErr ELSE Wrap(log[2].out, msg)

C20_LaterPushStartsPlain ==
  /\ withRetry.n = 2
  /\ regRemote.log # << >>
  /\ regRemote.log[1].plain

\* the remoter.Push calls of the config that pushManifest has made
ConfigPushes == SelectSeq(pubLog, LAMBDA p : p.what = "config")

\* C21: the push of the image config is covered by the retry policy: when
\* the commit fails on a config push whose error is not of the
\* scheme-downgrade class, the push has been attempted 3 times.
C21_ConfigPushRetried ==
  (/\ pc = "returned"
   /\ result.wrap = << "push manifest", "push image config" >>
   /\ ~DowngradeClass(result)) =>
     Len(ConfigPushes) = 3

\* C22: when the object already exists and forcePush is false, push returns
\* success without initiating a multipart upload and without uploading a
\* part; when the existence check fails, push fails without initiating one.
C22_ExistingObjectSkipped ==
  /\ (ossPush.pc # "exist" /\ ossPush.exist /\ ~ossPush.forcePush) =>
       /\ ossPush.pc = "returned"
       /\ ossPush.ret = NoErr
       /\ ossPush.initiated = 0
       /\ ossPush.imur = "none"
       /\ ossPush.part = << >>
       /\ ossPush.partsChan = << >>
  /\ (ossPush.ret # NoErr /\ ossPush.ret.wrap = << "check object existence" >>) =>
       /\ ossPush.pc = "returned"
       /\ ossPush.initiated = 0
       /\ ossPush.imur = "none"
       /\ ossPush.part = << >>

\* push has returned success for a blob of two chunks that was in the store
C22_Witness ==
  /\ ossPush.pc = "returned"
  /\ ossPush.exist
  /\ ~ossPush.forcePush
  /\ ossPush.blobSize = 3
  /\ ossPush.chunkSize = 2
  /\ ossPush.ret = NoErr
  /\ ossPush.initiated = 0

\* an existing object is uploaded again when forcePush is set
C22_ForcePush ==
  /\ ossPush.exist
  /\ ossPush.forcePush
  /\ ossPush.imur = "completed"

\* the parts a blob of blobSize bytes needs with chunks of chunkSize bytes,
\* the final partial part included
PartsNeeded(blobSize, chunkSize) ==
  (blobSize \div chunkSize) + (IF blobSize % chunkSize > 0 THEN 1 ELSE 0)

\* C23: the multipart split never yields more than 9999 parts; a blob that
\* needs more than 9999 parts, the final partial part included, is rejected
\* with an error.
C23_AtMost9999Parts ==
  (split.done /\ split.chunkSize > 0) =>
     /\ Len(split.chunks) <= 9999
     /\ PartsNeeded(split.blobSize, split.chunkSize) > 9999 => split.err # NoErr

\* what the split does keep to: at most 9999 whole chunks and one partial one
C23_AtMost10000Parts ==
  (split.done /\ split.chunkSize > 0) =>
     /\ Len(split.chunks) <= 10000
     /\ PartsNeeded(split.blobSize, split.chunkSize) > 10000 => split.err # NoErr
     /\ split.err = NoErr =>
          /\ Len(split.chunks) = PartsNeeded(split.blobSize, split.chunkSize)
          /\ \A i \in 1 .. Len(split.chunks) :
               /\ split.chunks[i].Number = i
               /\ split.chunks[i].Offset = (i - 1) * split.chunkSize
               /\ split.chunks[i].Size > 0
               /\ split.chunks[i].Offset + split.chunks[i].Size <= split.blobSize
          /\ split.chunks # << >> =>
               split.chunks[Len(split.chunks)].Offset + split.chunks[Len(split.chunks)].Size
                 = split.blobSize

\* a blob of 9999 whole chunks and one more byte has been split into 10000 parts
C23_TenThousandParts ==
  /\ split.done
  /\ split.chunkSize = 2
  /\ split.blobSize = 2 * 9999 + 1
  /\ split.err = NoErr
  /\ Len(split.chunks) = 10000

\* C24: every multipart upload push has initiated is, when push returns,
\* either completed or aborted: aborted when a part failed after its retries
\* and when the complete call failed; complete is never called on an upload
\* that was aborted.
C24_CompletedOrAborted ==
  /\ ossPush.initiated <= 1
  /\ ~(ossPush.aborted > 0 /\ ossPush.completed > 0)
  /\ (ossPush.pc = "returned" /\ ossPush.initiated = 1) =>
       \/ ossPush.imur = "completed" /\ ossPush.ret = NoErr /\ ossPush.aborted = 0
       \/ ossPush.aborted = 1 /\ ossPush.ret # NoErr

\* push has returned the error of the complete call and has not asked for
\* the upload to be aborted
C24_CompleteFailedNoAbort ==
  /\ ossPush.pc = "returned"
  /\ ossPush.ret.wrap = << "complete multipart upload" >>
  /\ ossPush.imur = "open"
  /\ ossPush.aborted = 0

\* what does hold: a failure of the parts is followed by one abort request,
\* and no complete call
C24_PartFailureAborts ==
  /\ ossPush.initiated <= 1
  /\ ~(ossPush.aborted > 0 /\ ossPush.completed > 0)
  /\ (ossPush.pc = "returned" /\ ossPush.gErr # NoErr) =>
       /\ ossPush.aborted = 1
       /\ ossPush.ret = Wrap(ossPush.gErr, "upload parts")
  /\ \A i \in 1 .. Len(ossPush.part) : ossPush.part[i].calls <= 3

\* the callers wf.backend has handed a backend value to
Served == { c \in Callers : caller[c].be # NilBackend }

\* C25: under any interleaving of concurrent pushBlob calls the backend is
\* constructed at most once and every caller that gets a backend gets the
\* same instance; when the construction has failed, that caller and every
\* later one get an error, and no caller gets the value the failed
\* construction has left behind.
C25_BackendOnce ==
  /\ wfBe.built <= 1
  /\ \A c, d \in Served : caller[c].be = caller[d].be
  /\ \A c \in Served : caller[c].be \in { "oss", "registry" }
  /\ wfBe.failed > 0 => Served = { }

\* what does hold: one caller at a time is inside wf.backend, at most one
\* construction succeeds, and all callers that were served hold wf.be
C25_OneInstance ==
  /\ wfBe.built <= 1
  /\ Cardinality({ c \in Callers : caller[c].pc = "locked" }) <= 1
  /\ \A c \in Served : caller[c].be = wfBe.val
  /\ wfBe.built = 0 => \A c \in Served : caller[c].be = NilOSSBackend

\* after a failed NewOSSBackend a later caller has been handed the nil
\* *OSSBackend with a nil error, and its Push has panicked
C25_NilBackendHandedOut ==
  /\ external
  /\ wfBe.failed = 1
  /\ wfBe.val = NilOSSBackend
  /\ \E c, d \in Callers :
       /\ caller[c].err = Wrap(E("oss"), "new oss backend")
       /\ caller[d].be = NilOSSBackend
       /\ caller[d].pc = "panicked"

\* after a failed remote.New a later caller has constructed the registry
\* backend
C25_RegistryBuiltLater ==
  /\ ~external
  /\ wfBe.failed = 1
  /\ wfBe.built = 1
  /\ \E c \in Callers : caller[c].be = "registry"

\* C26: each pushing task uses a registry client of its own: no two tasks
\* push through the same registry client at the same time, and a client is
\* never reconfigured for plain HTTP while another task is pushing through it.
C26_OwnRegistryClient ==
  /\ \A c, d \in Callers :
       (/\ c # d
        /\ caller[c].pc = "pushing" /\ caller[c].be = "registry"
        /\ caller[d].pc = "pushing" /\ caller[d].be = "registry") => FALSE
  /\ ~wfBe.switchedUnder

\* the one client of the registry backend has been reconfigured while
\* another task had a push in flight on it
C26_SwitchedUnderPush ==
  /\ ~external
  /\ wfBe.switchedUnder
  /\ wfBe.built = 1
  /\ \E c \in Callers : caller[c].pc = "pushing" /\ caller[c].be = "registry"

\* the commit with the deferred Destory sure to run once Commit has returned
SpecLive == Spec /\ WF_vars(DestoryStep)

\* C27: the work directory of the invocation is removed before the process
\* exits, on every outcome of the commit; a process that has ended, by the
\* return of the commit action or by a panic, has left no work directory.
C27_WorkDirRemoved ==
  pc = "crashed" => workDir = "removed"

\* what does hold: whenever Commit returns, with or without an error, the
\* work directory is removed afterwards
C27_RemovedAfterReturn ==
  (pc = "returned") ~> (workDir = "removed")

\* only a commit that has returned removes the directory, and a new
\* invocation starts with a directory of its own
C27_RemovedByOwner ==
  /\ workDir = "removed" => pc = "returned"
  /\ pc # "returned" => workDir = "created"

\* the process has ended in a panic of a wave task and the directory is there
C27_CrashLeavesWorkDir ==
  /\ pc = "crashed"
  /\ workDir = "created"
  /\ wave \in { 1, 2 }

\* the blobs the task t has recorded for the merge
Recorded(t) ==
  IF t = 0 THEN { upperBlob }
  ELSE { mountBlobs[i] : i \in DOMAIN mountBlobs } \ { NoBlob }

\* C28: a blob file is opened for reading, by pushBlob or by the merge, only
\* after its packer has closed successfully in the latest attempt of its
\* task (the attempt left a digest); a task whose attempt failed does not push.
C28_BlobReadAfterClose ==
  /\ \A t \in TaskIds :
       task[t].pc \in { "push", "done" } => task[t].digest = DigestOf(t)
  /\ upperBlob # NoBlob => upperBlob.Digest # NoDigest
  /\ \A i \in DOMAIN mountBlobs :
       mountBlobs[i] # NoBlob => mountBlobs[i].Digest # NoDigest
  /\ (pc = "merge" /\ upperBlob # NoBlob) =>
       \A i \in DOMAIN mountBlobs : mountBlobs[i] # NoBlob

\* a task whose packing failed for good has returned without a push, next to
\* a sibling that packed, pushed and recorded its blob
C28_Witness ==
  \E t, u \in TaskIds :
    /\ task[t].pc = "failed"
    /\ task[t].ret.kind = "pack"
    /\ task[t].digest = NoDigest
    /\ task[u].pc = "done"
    /\ [Name |-> BlobName(u), Digest |-> DigestOf(u)] \in Recorded(u)

\* C29: the digest of a blob's descriptor is the hash of the bytes that are
\* in the blob file and its size is the file's length, also when an earlier,
\* failed attempt had written bytes to the same file name.
C29_DigestOfFileBytes ==
  /\ blobFile.pc = "push" => blobFile.digest = Hash(blobFile.file)
  /\ blobFile.pc = "described" =>
       /\ blobFile.desc.Digest = Hash(blobFile.file)
       /\ blobFile.desc.Size = Len(blobFile.file)

\* a blob described after a retry: the failed attempt had left bytes in the
\* file that are not the bytes of the blob
C29_Witness ==
  /\ blobFile.pc = "described"
  /\ blobFile.total < RetryTotal - 1
  /\ blobFile.left # << >>
  /\ blobFile.left # blobFile.file
  /\ blobFile.file # << >>

\* the address names one of the two known engines: "docker" or "pouch",
\* one "://", and a container id without "://"
KnownEngine(a) ==
  /\ Len(a) >= 2
  /\ a[1] \in { "docker", "pouch" }
  /\ a[2] = Sep
  /\ \A i \in 3 .. Len(a) : a[i] # Sep

\* C30: Inspect, Pause and UnPause return an error for a container address
\* whose engine is not one of the two known ones, an address without engine://
\* and one with more than one :// included, and contact no engine socket.
C30_UnknownEngineRejected ==
  (mgr.pc = "returned" /\ ~KnownEngine(mgr.addr)) =>
     /\ mgr.ret # NoErr
     /\ mgr.contacted = << >>

\* what the known engines get: a request on the socket configured for them
C30_KnownEngineContacted ==
  (mgr.pc = "returned" /\ KnownEngine(mgr.addr)) =>
     /\ Len(mgr.contacted) = 1
     /\ mgr.contacted[1].sock =
          (IF mgr.addr[1] = "docker" THEN "unix://cfg.DockerAddr" ELSE "unix://cfg.PouchAddr")
     /\ mgr.contacted[1].id = SubSeq(mgr.addr, 3, Len(mgr.addr))

\* Inspect of an address without an engine prefix: parseID answers
\* EngineUnknown with no error, getEngineAddr refuses it
C30_Witness ==
  /\ mgr.pc = "returned"
  /\ mgr.op = "Inspect"
  /\ mgr.addr # << >>
  /\ \A i \in 1 .. Len(mgr.addr) : mgr.addr[i] # Sep
  /\ mgr.ret = [kind |-> "invalid engine type", origin |-> -1,
                wrap |-> << "create client", "parse engine type" >>]
  /\ mgr.contacted = << >>

\* UnPause of an address with two "://": parseID refuses it
C30_TwoSeparators ==
  /\ mgr.pc = "returned"
  /\ mgr.op = "UnPause"
  /\ Len(SplitSep(mgr.addr)) = 3
  /\ mgr.ret.wrap = << "create client", "parse container id" >>
  /\ mgr.contacted = << >>

\* C31: the lower-dir value of an inspect result is the ordered list of the
\* container's lower directories joined with commas, for both engines.
C31_LowerDirsCommaJoined ==
  (insp.pc = "returned" /\ insp.err = NoErr) =>
     insp.res.LowerDirs = Joined(insp.dirs, Comma)

\* what holds for docker: the lowerdir option of the merged directory's
\* mount, split on ":" and joined with "," in the same order, and nothing
\* when the mount has no such option
C31_DockerCommaJoined ==
  (insp.pc = "returned" /\ insp.err = NoErr /\ insp.engine = EngineDocker) =>
     insp.res.LowerDirs \in { Joined(insp.dirs, Comma), << >> }

\* the other engine's LowerDir field with two directories comes back as the
\* engine wrote it, joined by ":"
C31_ColonsKept ==
  /\ insp.pc = "returned"
  /\ insp.err = NoErr
  /\ insp.engine = EnginePouch
  /\ Len(insp.dirs) = 2
  /\ insp.res.LowerDirs = << insp.dirs[1], Colon, insp.dirs[2] >>

\* a field of the container's JSON is there and holds a valid image name
ValidImage(value) ==
  /\ value # Absent
  /\ value # << >>
  /\ ParseDockerRef(value).err = NoErr

\* the reference Inspect has to go by: the label when present and valid,
\* else Config.Image
ChosenImage ==
  IF ValidImage(insp.label) THEN insp.label ELSE insp.cfgImage

\* C32: Inspect takes the image from the io.kubernetes.container.image label
\* when the label is present and valid, else from Config.Image, and fails
\* when the reference it took does not end with _nydus_v2, whatever the
\* other field holds.
C32_ImageChoice ==
  insp.pc = "returned" =>
     /\ insp.err = NoErr => insp.res.Image = ChosenImage
     /\ ~HasSuffix(ChosenImage, NydusRefSuffix) => insp.err # NoErr

\* the label names a valid image without the suffix, Config.Image one with
\* it: Inspect has failed on the label's image
C32_Witness ==
  /\ insp.pc = "returned"
  /\ ValidImage(insp.label)
  /\ ~HasSuffix(insp.label, NydusRefSuffix)
  /\ HasSuffix(insp.cfgImage, NydusRefSuffix)
  /\ ~(insp.engine = EngineDocker /\ ~insp.info.found)
  /\ insp.err = E("invalid nydus image name")

\* the label is absent or invalid: the image is Config.Image
C32_FallsBack ==
  /\ insp.pc = "returned"
  /\ insp.label = << "NGINX" >>
  /\ insp.err = NoErr
  /\ insp.res.Image = insp.cfgImage

\* the tasks of the commit that have been started, in either wave
Started == { t \in TaskIds : task[t].pc # "idle" }

\* C33: no two tasks of a commit, of wave 1 or wave 2, in any of their
\* attempts, write the same blob file of the work directory.
C33_DistinctBlobFiles ==
  \A t, u \in Started \cup Wave1Ids \cup Wave2Ids :
    t # u => BlobName(t) # BlobName(u)

\* a task of wave 2 in a second attempt, next to the upper task and an
\* include-mount task of wave 1 that have written their files
C33_Witness ==
  /\ pc = "wave2"
  /\ opt.nWith >= 1
  /\ task[0].pc = "done" /\ task[1].pc = "done"
  /\ \E t \in Wave2Ids : task[t].pc = "ret" /\ task[t].total = RetryTotal - 2

\* the commit with every enabled step sure to be taken
SpecFair == Spec /\ WF_vars(Next)

\* C34: a wave task runs its extract-and-pack pipeline again only after an
\* attempt of its own has failed, and when it fails it fails with the error
\* of its last attempt.
C34_RetryAfterOwnFailure ==
  [][\A t \in TaskIds :
       task[t].pc = "ret" =>
         /\ task'[t].pc = "run" => task[t].digest = NoDigest
         /\ task'[t].pc = "failed" =>
              /\ task[t].digest = NoDigest
              /\ task'[t].ret = Wrap(PackErr(t), CommitMsg(t))]_vars

\* what does hold: no task runs the pipeline more than 3 times
C34_AtMostThreeAttempts ==
  \A t \in TaskIds :
    /\ task[t].total \in 0 .. RetryTotal
    /\ task[t].pc = "run" => task[t].total >= 1
    /\ task[t].pc = "ret" => RetryTotal - task[t].total \in 1 .. RetryTotal

\* and every commit ends, by a return or by the panic of a task
C34_CommitTerminates ==
  (pc \in { "wave1", "wave2" }) ~> (pc \in { "returned", "crashed" })

\* a task whose attempt has packed its blob is about to run again, on the
\* error a sibling left in the shared variable
C34_RetryAfterSuccess ==
  \E t \in TaskIds :
    /\ task[t].pc = "ret"
    /\ task[t].digest # NoDigest
    /\ RetryDecision(err, task[t].total) = "retry"

\* C35: what the retry wrapper of a task is about to see for an attempt is
\* the outcome of that task's own attempt: nil exactly when it packed its
\* blob, else its own error.
C35_OwnOutcome ==
  \A t \in TaskIds :
    task[t].pc = "ret" =>
      /\ err = NoErr <=> task[t].digest # NoDigest
      /\ err # NoErr => err = PackErr(t)

\* an attempt that failed is taken for a success: withRetry returns nil and
\* the nil digest pointer is dereferenced
C35_FailureTakenForSuccess ==
  /\ pc = "crashed"
  /\ \E t \in TaskIds :
       task[t].pc = "ret" /\ task[t].digest = NoDigest /\ err = NoErr

\* a task fails for good with the error of a sibling
C35_ForeignError ==
  \E t \in TaskIds :
    /\ task[t].pc = "failed"
    /\ task[t].ret # NoErr
    /\ task[t].ret.kind = "pack"
    /\ task[t].ret.origin # t

\* C36: the list of nested mount paths that seeds wave 2 holds each
\* discovered path at most once, also after a retried diff extraction.
C36_NoDuplicatePaths ==
  \A i, j \in DOMAIN paths : i # j => paths[i] # paths[j]

\* a commit has succeeded with one nested mount listed twice: wave 2 has
\* packed and pushed it as two blobs, both recorded for the manifest
C36_PackedTwice ==
  /\ pc = "returned"
  /\ result = NoErr
  /\ Len(paths) = 2
  /\ paths[1] = paths[2]
  /\ Len(mountBlobs) = opt.nWith + 2
  /\ mountBlobs[opt.nWith + 1] # mountBlobs[opt.nWith + 2]

\* C37: a split that succeeds returns the parts 1..n of [0, size): part k
\* starts at (k-1)*chunkSize, every part but the last has chunkSize bytes, the
\* last has 1..chunkSize and ends at size; size 0 gives no part; a chunk
\* size of 0 or less is an error.
C37_PartsCoverBlob ==
  split.done =>
    LET n == Len(split.chunks)
    IN /\ split.chunkSize <= 0 => split.err # NoErr
       /\ (split.chunkSize > 0 /\ split.err = NoErr) =>
            /\ n = 0 <=> split.blobSize = 0
            /\ \A k \in 1 .. n :
                 /\ split.chunks[k].Number = k
                 /\ split.chunks[k].Offset = (k - 1) * split.chunkSize
                 /\ split.chunks[k].Size \in 1 .. split.chunkSize
                 /\ k < n => split.chunks[k].Size = split.chunkSize
            /\ n > 0 => split.chunks[n].Offset + split.chunks[n].Size = split.blobSize

\* a blob of whole chunks and a remainder, split into more than one part
C37_Witness ==
  /\ split.done
  /\ split.err = NoErr
  /\ split.chunkSize > 1
  /\ split.blobSize % split.chunkSize > 0
  /\ Len(split.chunks) >= 2

\* C38: partsChan, made for as many parts as the split has chunks, never
\* holds more, so no part upload waits to hand over its part; complete is
\* called only when every part upload has succeeded, and with exactly one
\* part for every chunk.
C38_OnePartPerChunk ==
  /\ Len(ossPush.partsChan) <= Len(ossPush.chunks)
  /\ \A i, j \in DOMAIN ossPush.partsChan :
       i # j => ossPush.partsChan[i] # ossPush.partsChan[j]
  /\ (ossPush.pc = "complete" \/ ossPush.completed > 0) =>
       /\ \A i \in DOMAIN ossPush.part :
            ossPush.part[i].pc = "done" /\ ossPush.part[i].err = NoErr
       /\ { ossPush.partsChan[i] : i \in DOMAIN ossPush.partsChan } =
            { ossPush.chunks[k].Number : k \in DOMAIN ossPush.chunks }
       /\ Len(ossPush.partsChan) = Len(ossPush.chunks)

\* complete has been called for a blob of several parts, one of which was
\* uploaded at a later attempt, the parts handed over out of order
C38_Witness ==
  /\ ossPush.completed = 1
  /\ Len(ossPush.chunks) >= 2
  /\ \E i \in DOMAIN ossPush.part : ossPush.part[i].calls >= 2
  /\ ossPush.partsChan[1] # 1

\* C39: every bind mount prepareMounts returns is taken from a container
\* mount whose destination is the include path or one of its ancestor
\* directories, the innermost such mount, and its source lies inside that
\* mount's source directory.
C39_WholeComponents ==
  (prep.pc = "returned" /\ prep.err = NoErr) =>
    \A i \in 1 .. Len(prep.mounts.list) :
      /\ MountsOver(targetPaths[i]) # { }
      /\ findMount(containerMounts, targetPaths[i]) = MountOver(targetPaths[i])
      /\ Under(prep.mounts.list[i].Source, containerMounts[MountOver(targetPaths[i])].Source)

\* with the mount /g/o/f in front, the path /g/o/f is given that mount and
\* the path /g/o/b the mount /g/o: the longest destination wins
C39_LongestWins ==
  /\ prep.pc = "returned"
  /\ prep.err = NoErr
  /\ Len(containerMounts) = 2
  /\ containerMounts[1].Destination = << "/", "g", "/", "o", "/", "f" >>
  /\ containerMounts[2].Destination = << "/", "g", "/", "o" >>
  /\ targetPaths = << << "/", "g", "/", "o", "/", "f" >>, << "/", "g", "/", "o", "/", "b" >> >>
  /\ prep.mounts.list[1].Source = << "/", "h", "/", "x" >>
  /\ prep.mounts.list[2].Source = << "/", "h", "/", "o", "/", "b" >>

\* a path beside the mount /g/o is matched with it and its source has
\* stepped out of the mount's source directory /h/o
C39_SteppedOut ==
  /\ prep.pc = "returned"
  /\ prep.err = NoErr
  /\ Len(targetPaths) = 1
  /\ targetPaths[1] = << "/", "g", "/", "o", "2", "/", "f" >>
  /\ findMount(containerMounts, targetPaths[1]) # 0
  /\ containerMounts[findMount(containerMounts, targetPaths[1])].Source = << "/", "h", "/", "o" >>
  /\ ~Under(prep.mounts.list[1].Source, << "/", "h", "/", "o" >>)

\* the layer is a bootstrap layer
IsBootstrapLayer(l) ==
  /\ "containerd.io/snapshot/nydus-bootstrap" \in DOMAIN l.Annotations
  /\ l.Annotations["containerd.io/snapshot/nydus-bootstrap"] = "true"

\* C40: in the manifest a commit has pushed, the config's diff-id list has
\* one entry per layer, entry k for layer k (the digest of a blob layer, the
\* diff id of the merged bootstrap for the bootstrap layer), and the only
\* bootstrap layer is the last layer.
C40_DiffIDsMatchLayers ==
  (pc = "returned" /\ result = NoErr) =>
    LET n == Len(registryLayers)
    IN /\ n >= 1
       /\ Len(pushedDiffIDs) = n
       /\ \A k \in 1 .. n : IsBootstrapLayer(registryLayers[k]) <=> k = n
       /\ pushedDiffIDs[n] = BootstrapDiffID
       /\ \A k \in 1 .. (n - 1) :
            /\ registryLayers[k].MediaType = MediaTypeNydusBlob
            /\ pushedDiffIDs[k] = registryLayers[k].Digest

\* a second commit in a row, on a base whose manifest ends with the first
\* commit's bootstrap layer, with blob layers in the new manifest
C40_Witness ==
  /\ pc = "returned"
  /\ result = NoErr
  /\ ~external
  /\ succCommits >= 2
  /\ \E k \in 1 .. Len(baseLayers) : IsBootstrapLayer(baseLayers[k])
  /\ Len(registryLayers) >= 4

====
